---- MODULE Spec2Model ----
(***************************************************************************)
(* Argo float pipeline: acquisition (core/ETL/extract.py) and              *)
(* normalization (core/ETL/transform.py driven by core/loader.py).         *)
(*                                                                         *)
(* Three specifications share the module:                                  *)
(*   SpecIngest  walk_and_ingest / ingest_file on one psycopg2 connection  *)
(*   SpecFetch   download_file_from_any / try_download_from_servers        *)
(*   SpecMain    extract.main: indexes, selection, worker pool, tally      *)
(***************************************************************************)
EXTENDS Integers, Sequences, FiniteSets, TLC

VARIABLES
    \* ---- normalization stage (loader.py, transform.py) ----
    db,        \* committed relational store
    tx,        \* the store as seen inside the connection's open transaction
    txState,   \* "closed" | "idle" | "open" | "aborted"  (psycopg2 connection status)
    txStart,   \* value of now() for the open transaction (its start time)
    conn,      \* number of connections opened so far (one per driver run)
    clock,     \* number of ingest_file calls issued so far (also the wall clock)
    todo,      \* files os.walk may still yield in the current run
    calls,     \* history: one record per ingest_file call
    last,      \* history: file, outcome and store snapshot of the most recent call
    \* ---- acquisition stage (extract.py): one fetch ----
    fs,        \* files on disk: set of [path, content]
    dl,        \* the fetch in progress (download_file_from_any or an index fetch)
    fetched,   \* history: relative paths an earlier fetch reported success for
    \* ---- acquisition stage (extract.py): main ----
    mn,        \* main's arguments, locals, printed lines and exit status
    futs,      \* the futures of the worker pool, in submission order
    \* ---- pure functions of both stages ----
    lab,       \* one call of a function: its arguments and its result
    \* ---- normalization stage: two processes on one database ----
    pg         \* the database server and the sessions of the two processes

ivars == <<db, tx, txState, txStart, conn, clock, todo, calls, last>>

fvars == <<fs, dl, fetched>>

mvars == <<mn, futs>>

xvars == <<lab, pg>>

vars == <<db, tx, txState, txStart, conn, clock, todo, calls, last, fs, dl, fetched,
          mn, futs, lab, pg>>

-----------------------------------------------------------------------------
(* Bounds *)

\* total number of ingest_file calls explored
MaxCalls == 2

\* number of successive fetch calls explored (a run and its reruns)
MaxFetchCalls == 2

\* largest --workers argument explored
MaxWorkers == 2

-----------------------------------------------------------------------------
(* Values *)

\* SQL NULL / Python None for times, pressures and measured values
NULL == 0

Min(a, b) == IF a <= b THEN a ELSE b

Max(a, b) == IF a >= b THEN a ELSE b

-----------------------------------------------------------------------------
(* transform.py: floating-point values, _is_sentinelish, _clean_val, _good *)

\* A Python float is a record: k = "num" stands for v * 10^e, written with
\* e = 0 and |v| <= 10^8, or with e >= 4 and a six-digit v; k = "nan" and
\* k = "inf" (v = 1 or -1) are the non-finite values; k = "none" is None;
\* k = "bad" is an object float() raises on.
Num(v) == [k |-> "num", v |-> v, e |-> 0]

Sci(v, e) == [k |-> "num", v |-> v, e |-> e]

None == [k |-> "none", v |-> 0, e |-> 0]

NaN == [k |-> "nan", v |-> 0, e |-> 0]

Inf == [k |-> "inf", v |-> 1, e |-> 0]

NegInf == [k |-> "inf", v |-> -1, e |-> 0]

\* a masked array element: float() of it is nan
Masked == [k |-> "masked", v |-> 0, e |-> 0]

NotANumber == [k |-> "bad", v |-> 0, e |-> 0]

Abs(n) == IF n < 0 THEN 0 - n ELSE n

\* np.isfinite
IsFinite(x) == x.k = "num"

\* |x| < |y| for finite x, y
LtMag(x, y) == x.e < y.e \/ (x.e = y.e /\ Abs(x.v) < Abs(y.v))

\* x < y on floats: false when either is nan
Lt(x, y) ==
    CASE x.k = "nan" \/ y.k = "nan" -> FALSE
      [] x.k = "inf" -> x.v < 0 /\ y # x
      [] y.k = "inf" -> y.v > 0
      [] x.v < 0 /\ y.v >= 0 -> TRUE
      [] x.v >= 0 /\ y.v < 0 -> FALSE
      [] x.v >= 0 /\ y.v >= 0 -> LtMag(x, y)
      [] OTHER -> LtMag(y, x)

\* np.isclose(a, b, rtol=r, atol=t) for finite a, b, that is
\* |a - b| <= t + r * |b|, with r given as 1/rden (rden = 0 for r = 0) and
\* t below the spacing of the values
IsClose(a, b, rden) ==
    LET tol(m) == IF rden = 0 THEN 0 ELSE m \div rden
    IN  CASE a.e = b.e -> Abs(a.v - b.v) <= tol(Abs(b.v))
          [] a.e >= 4 /\ b.e = a.e + 1 ->
                Abs(a.v - 10 * b.v) <= tol(10 * Abs(b.v))
          [] b.e >= 4 /\ a.e = b.e + 1 ->
                Abs(10 * a.v - b.v) <= tol(Abs(b.v))
          [] OTHER -> FALSE

\* PHYS_RANGES
PHYS_RANGES ==
    [pres |-> <<Num(0), Num(12000)>>, temp |-> <<Num(-3), Num(45)>>,
     psal |-> <<Num(0), Num(45)>>, doxy |-> <<Num(0), Num(500)>>,
     chla |-> <<Num(0), Num(100)>>]

PhysKeys == {"pres", "temp", "psal", "doxy", "chla"}

\* SENTINEL_VALUES
SENTINEL_VALUES ==
    { Num(999), Num(9999), Num(99999), Num(-999), Num(-9999), Num(-99999),
      Sci(100000, 15), Sci(-100000, 15), Sci(100000, 30), Sci(-100000, 30),
      Sci(996921, 31), Sci(-996921, 31) }

\* SENTINEL_ABS_THRESHOLD = 1e19
SENTINEL_ABS_THRESHOLD == Sci(100000, 14)

\* float(x)
ToFloat(x) == IF x.k = "masked" THEN NaN ELSE x

\* mutant of IsSentinelish: the fixed placeholders are not looked at
IsSentinelish_NoPlaceholders(xf) ==
    \/ ~ IsFinite(xf)
    \/ ~ LtMag(xf, SENTINEL_ABS_THRESHOLD)

\* _is_sentinelish
IsSentinelish(xf) ==
    \/ ~ IsFinite(xf)
    \/ ~ LtMag(xf, SENTINEL_ABS_THRESHOLD)
    \/ \E s \in SENTINEL_VALUES : IsClose(xf, s, 0)

\* _clean_val(x, _fill=fill, vmin=vmin, vmax=vmax, phys_key=phys); phys is
\* "" when no key is passed
CleanVal(x, fill, vmin, vmax, phys) ==
    IF x = None THEN None
    ELSE IF x.k = "bad" THEN None
    ELSE LET xf == ToFloat(x)
         IN  IF fill # None /\ IsFinite(fill) /\ IsFinite(xf)
                /\ IsClose(xf, fill, 100000)
             THEN None
             ELSE IF IsSentinelish(xf) THEN None
             ELSE IF vmin # None /\ Lt(xf, vmin) THEN None
             ELSE IF vmax # None /\ Lt(vmax, xf) THEN None
             ELSE IF phys \in PhysKeys
                     /\ (Lt(xf, PHYS_RANGES[phys][1]) \/ Lt(PHYS_RANGES[phys][2], xf))
             THEN None
             ELSE xf

\* A QC flag as the arrays hold it: one byte, a masked element (whose str
\* is "--"), or no flag at all (the array is absent or shorter).
QNone == [k |-> "none", cs |-> << >>]

QMasked == [k |-> "flag", cs |-> <<"-", "-">>]

Flag(c) == [k |-> "flag", cs |-> <<c>>]

\* str.strip() on a character sequence
RECURSIVE StripChars(_)
StripChars(cs) ==
    IF cs = << >> THEN cs
    ELSE IF Head(cs) = " " THEN StripChars(Tail(cs))
    ELSE IF cs[Len(cs)] = " " THEN StripChars(SubSeq(cs, 1, Len(cs) - 1))
    ELSE cs

\* mutant of Good: flag '3' (probably bad, correctable) is accepted too
Good_Accepts3(q) ==
    /\ q # QNone
    /\ StripChars(q.cs) \in { <<"1">>, <<"2">>, <<"3">> }

\* _good
Good(q) ==
    /\ q # QNone
    /\ StripChars(q.cs) \in { <<"1">>, <<"2">> }

\* best_temp / best_psal from the cleaned values and the raw flags
BestValue(adj, adjq, raw, rawq) ==
    IF adj # None /\ Good(adjq) THEN adj
    ELSE IF raw # None /\ Good(rawq) THEN raw
    ELSE None

-----------------------------------------------------------------------------
(* The files under ROOT/dac *)

\* the BGC arrays of a profile: a variable the file lacks is an empty row
NoBgc == [pres |-> << >>, doxy |-> << >>, doxyAdj |-> << >>, chla |-> << >>,
          chlaAdj |-> << >>]

\* variable attributes: _FillValue of every variable, valid_max of DOXY
Attrs(fill, doxyMax) == [fill |-> fill, doxyMax |-> doxyMax]

\* The .nc files that can lie under ROOT/dac.  A file is its relative path
\* (segments count, name tokens) and what the NetCDF dataset holds.
\* R... and D... are the real-time and delayed-mode file of one cycle, and
\* so are SR... and SD...; SD... has a profile without any level and BGC
\* rows that hold fill values only, and a profile whose only oxygen value
\* lies above the declared valid_max.  notes.nc and R19001_001.nc have
\* names NC_RE does not match (no platform number, one of five digits);
\* D1900001_009.nc lies one directory below ROOT/dac, so that its relative
\* path has two segments.  R1900001_001D.nc is the descending profile of
\* cycle 1: its cycle token ends in a letter.
NcFiles ==
    { [name |-> "R1900001_001.nc", nseg |-> 4, dac |-> "aoml", prefix |-> <<"R">>,
       wmoLen |-> 7, wmo |-> 1900001, ctok |-> <<"0", "0", "1">>, sprofInPath |-> FALSE,
       ga |-> {<<"title", "realtime">>}, attrs |-> Attrs(Num(99999), None),
       profs |-> << [t |-> 5, core |-> <<11, 12>>, bgc |-> NoBgc],
                    [t |-> 3, core |-> <<13>>, bgc |-> NoBgc] >>],
      [name |-> "D1900001_001.nc", nseg |-> 4, dac |-> "aoml", prefix |-> <<"D">>,
       wmoLen |-> 7, wmo |-> 1900001, ctok |-> <<"0", "0", "1">>, sprofInPath |-> FALSE,
       ga |-> {<<"title", "delayed">>, <<"history", "dmqc">>},
       attrs |-> Attrs(Num(99999), None),
       profs |-> << [t |-> 4, core |-> <<21>>, bgc |-> NoBgc] >>],
      [name |-> "SR1900001_002.nc", nseg |-> 4, dac |-> "aoml", prefix |-> <<"S", "R">>,
       wmoLen |-> 7, wmo |-> 1900001, ctok |-> <<"0", "0", "2">>, sprofInPath |-> FALSE,
       ga |-> {<<"title", "synthetic">>}, attrs |-> Attrs(Num(99999), None),
       profs |-> << [t |-> NULL, core |-> <<31>>,
                     bgc |-> [pres |-> <<Num(1), Num(99999), Num(2), Num(3)>>,
                              doxy |-> <<Num(7), Num(8), Num(99999)>>,
                              doxyAdj |-> << >>,
                              chla |-> <<Num(99999), Num(99999), Num(99999), Num(1)>>,
                              chlaAdj |-> <<NaN>>]],
                    [t |-> 6, core |-> <<32>>,
                     bgc |-> [pres |-> <<Num(5)>>, doxy |-> <<Num(300)>>,
                              doxyAdj |-> <<Num(301)>>, chla |-> << >>,
                              chlaAdj |-> << >>]] >>],
      [name |-> "SD1900001_002.nc", nseg |-> 4, dac |-> "aoml", prefix |-> <<"S", "D">>,
       wmoLen |-> 7, wmo |-> 1900001, ctok |-> <<"0", "0", "2">>, sprofInPath |-> FALSE,
       ga |-> {<<"title", "synthetic">>}, attrs |-> Attrs(Num(99999), Num(400)),
       profs |-> << [t |-> 7, core |-> << >>,
                     bgc |-> [pres |-> <<Num(1), Num(2)>>,
                              doxy |-> <<Num(99999), Num(99999)>>,
                              doxyAdj |-> <<Num(99999), NaN>>,
                              chla |-> <<Num(99999), Num(-1)>>,
                              chlaAdj |-> << >>]],
                    [t |-> NULL, core |-> <<41>>,
                     bgc |-> [pres |-> <<Num(5)>>, doxy |-> <<Num(450)>>,
                              doxyAdj |-> << >>, chla |-> << >>,
                              chlaAdj |-> << >>]] >>],
      [name |-> "notes.nc", nseg |-> 2, dac |-> "aoml", prefix |-> << >>,
       wmoLen |-> 0, wmo |-> 0, ctok |-> << >>, sprofInPath |-> FALSE,
       ga |-> {}, attrs |-> Attrs(None, None), profs |-> << >>],
      [name |-> "R19001_001.nc", nseg |-> 4, dac |-> "aoml", prefix |-> <<"R">>,
       wmoLen |-> 5, wmo |-> 19001, ctok |-> <<"0", "0", "1">>, sprofInPath |-> FALSE,
       ga |-> {}, attrs |-> Attrs(Num(99999), None),
       profs |-> << [t |-> 8, core |-> <<91>>, bgc |-> NoBgc] >>],
      [name |-> "D1900001_009.nc", nseg |-> 2, dac |-> "aoml", prefix |-> <<"D">>,
       wmoLen |-> 7, wmo |-> 1900001, ctok |-> <<"0", "0", "9">>, sprofInPath |-> FALSE,
       ga |-> {}, attrs |-> Attrs(Num(99999), None),
       profs |-> << [t |-> 9, core |-> <<92>>, bgc |-> NoBgc] >>],
      [name |-> "R1900001_001D.nc", nseg |-> 4, dac |-> "aoml", prefix |-> <<"R">>,
       wmoLen |-> 7, wmo |-> 1900001, ctok |-> <<"0", "0", "1", "D">>,
       sprofInPath |-> FALSE,
       ga |-> {<<"title", "descending">>}, attrs |-> Attrs(Num(99999), None),
       profs |-> << [t |-> 6, core |-> <<14, 15>>, bgc |-> NoBgc] >>] }

-----------------------------------------------------------------------------
(* transform.py: parse_rel *)

\* str.upper on the letters a file-name prefix is made of
Upper(c) ==
    CASE c = "s" -> "S"
      [] c = "r" -> "R"
      [] c = "d" -> "D"
      [] c = "b" -> "B"
      [] OTHER -> c

DigitChars == <<"0", "1", "2", "3", "4", "5", "6", "7", "8", "9">>

IsDigit(c) == \E i \in 1..10 : DigitChars[i] = c

DigitVal(c) == (CHOOSE i \in 1..10 : DigitChars[i] = c) - 1

\* int() of a digit sequence
RECURSIVE NumOf(_)
NumOf(cs) ==
    IF cs = << >> THEN 0
    ELSE 10 * NumOf(SubSeq(cs, 1, Len(cs) - 1)) + DigitVal(cs[Len(cs)])

\* re.match(r"(\d+)", ...): the digits a cycle token starts with
RECURSIVE LeadingDigits(_)
LeadingDigits(cs) ==
    IF cs = << >> \/ ~ IsDigit(Head(cs)) THEN << >>
    ELSE <<Head(cs)>> \o LeadingDigits(Tail(cs))

\* cycle_number = int(cycle_match.group(1)): a letter after the digits of
\* the cycle token is dropped
CycleNumber(f) == NumOf(LeadingDigits(f.ctok))

\* mutant of ParseRel: the number of segments is not checked
ParseRel_AnyDepth(f) ==
    IF f.wmoLen < 6
    THEN [ok |-> FALSE]
    ELSE [ok |-> TRUE, dac |-> f.dac, wmo |-> f.wmo,
          cycle_number |-> CycleNumber(f),
          file_type |-> IF (Len(f.prefix) > 0 /\ Upper(f.prefix[1]) = "S")
                           \/ f.sprofInPath
                        THEN "bgc_sprof" ELSE "core_profile",
          source_file |-> f.name]

\* mutant of ParseRel: a cycle token that ends in a letter gives a cycle
\* number of its own
ParseRel_LetterCounts(f) ==
    IF f.nseg < 3 \/ f.wmoLen < 6
    THEN [ok |-> FALSE]
    ELSE [ok |-> TRUE, dac |-> f.dac, wmo |-> f.wmo,
          cycle_number |-> IF LeadingDigits(f.ctok) = f.ctok
                           THEN CycleNumber(f) ELSE 1000 + CycleNumber(f),
          file_type |-> IF (Len(f.prefix) > 0 /\ Upper(f.prefix[1]) = "S")
                           \/ f.sprofInPath
                        THEN "bgc_sprof" ELSE "core_profile",
          source_file |-> f.name]

\* parse_rel: fewer than three segments, or a name NC_RE does not match
\* (fewer than six platform digits), raises ValueError; otherwise the
\* 5-tuple (dac, wmo, cycle_number, file_type, source_file).
ParseRel(f) ==
    IF f.nseg < 3 \/ f.wmoLen < 6
    THEN [ok |-> FALSE]
    ELSE [ok |-> TRUE, dac |-> f.dac, wmo |-> f.wmo,
          cycle_number |-> CycleNumber(f),
          file_type |-> IF (Len(f.prefix) > 0 /\ Upper(f.prefix[1]) = "S")
                           \/ f.sprofInPath
                        THEN "bgc_sprof" ELSE "core_profile",
          source_file |-> f.name]

\* modality = 'bgc' if file_type == 'bgc_sprof' else 'core'
Modality(f) == IF ParseRel(f).file_type = "bgc_sprof" THEN "bgc" ELSE "core"

-----------------------------------------------------------------------------
(* The relational store and the statements ingest_file issues *)

EmptyStore == [floats |-> {}, cycles |-> {}, profiles |-> {}, core |-> {}, bgc |-> {}]

MaxOf(S) == CHOOSE x \in S : \A y \in S : y <= x

\* a serial primary key: a value no row of the table carries yet
NextId(rows) == IF rows = {} THEN 1 ELSE 1 + MaxOf({r.id : r \in rows})

\* INSERT INTO floats ... ON CONFLICT (wmo) DO UPDATE SET dac, updated_at
UpsertFloat(s, f, now, by) ==
    IF \E r \in s.floats : r.wmo = f.wmo
    THEN [s EXCEPT !.floats =
            { IF r.wmo = f.wmo
              THEN [r EXCEPT !.dac = f.dac, !.upd = now, !.by = by]
              ELSE r : r \in s.floats }]
    ELSE [s EXCEPT !.floats = @ \cup
            { [wmo |-> f.wmo, dac |-> f.dac, first |-> NULL, last |-> NULL,
               meta |-> {}, upd |-> now, by |-> by] }]

\* mutant of UpsertCycle: a plain INSERT, so a cycle met again gets a new
\* row and a new id
UpsertCycle_NoConflict(s, f, now, by) ==
    [s EXCEPT !.cycles = @ \cup
        { [id |-> NextId(s.cycles), wmo |-> f.wmo,
           cycle_number |-> ParseRel(f).cycle_number, upd |-> now, by |-> by] }]

\* INSERT INTO float_cycles ... ON CONFLICT (wmo, cycle_number) DO UPDATE
\*   SET updated_at = now() RETURNING id
UpsertCycle(s, f, now, by) ==
    IF \E r \in s.cycles :
           r.wmo = f.wmo /\ r.cycle_number = ParseRel(f).cycle_number
    THEN [s EXCEPT !.cycles =
            { IF r.wmo = f.wmo /\ r.cycle_number = ParseRel(f).cycle_number
              THEN [r EXCEPT !.upd = now, !.by = by]
              ELSE r : r \in s.cycles }]
    ELSE [s EXCEPT !.cycles = @ \cup
            { [id |-> NextId(s.cycles), wmo |-> f.wmo,
               cycle_number |-> ParseRel(f).cycle_number,
               upd |-> now, by |-> by] }]

\* cycle_id = cur.fetchone()[0]
CycleId(s, f) ==
    (CHOOSE r \in s.cycles :
        r.wmo = f.wmo /\ r.cycle_number = ParseRel(f).cycle_number).id

\* level counts computed per profile from the file
NCoreLevels(pr) == Len(pr.core)

\* the mutable columns of a profiles row, as computed from the file
ProfileFields(f, pidx) ==
    [juld_time |-> f.profs[pidx].t, source_file |-> f.name,
     file_type |-> ParseRel(f).file_type, global_attrs |-> f.ga,
     n_core_levels |-> NCoreLevels(f.profs[pidx])]

\* mutant of UpsertProfile: a plain INSERT without the ON CONFLICT clause
\* (and no unique constraint), so that every ingestion adds a profiles row
UpsertProfile_NoConflict(s, f, pidx, now, by) ==
    [s EXCEPT !.profiles = @ \cup
        { [id |-> NextId(s.profiles), cycle_id |-> CycleId(s, f),
           modality |-> Modality(f), profile_index |-> pidx - 1,
           fields |-> ProfileFields(f, pidx), upd |-> now, by |-> by] }]

\* mutant of UpsertProfile: the first profile of a file first deletes the
\* profiles rows of the cycle and modality beyond the file's profile count
UpsertProfile_DropsStale(s, f, pidx, now, by) ==
    LET cid == CycleId(s, f)
        hit(r) == r.cycle_id = cid /\ r.modality = Modality(f)
                  /\ r.profile_index = pidx - 1
        stale(r) == r.cycle_id = cid /\ r.modality = Modality(f)
                    /\ r.profile_index >= Len(f.profs) /\ pidx = 1
        kept == { r \in s.profiles : ~ stale(r) }
    IN  IF \E r \in kept : hit(r)
        THEN [s EXCEPT !.profiles =
                { IF hit(r)
                  THEN [r EXCEPT !.fields = ProfileFields(f, pidx),
                                 !.upd = now, !.by = by]
                  ELSE r : r \in kept }]
        ELSE [s EXCEPT !.profiles = kept \cup
                { [id |-> NextId(s.profiles), cycle_id |-> cid,
                   modality |-> Modality(f), profile_index |-> pidx - 1,
                   fields |-> ProfileFields(f, pidx), upd |-> now, by |-> by] }]

\* INSERT INTO profiles ... ON CONFLICT (cycle_id, modality, profile_index)
\*   DO UPDATE SET <all mutable columns>, updated_at = now() RETURNING id
\* profile_index is zero-based in the file; pidx here counts from 1.
UpsertProfile(s, f, pidx, now, by) ==
    LET cid == CycleId(s, f)
        hit(r) == r.cycle_id = cid /\ r.modality = Modality(f)
                  /\ r.profile_index = pidx - 1
    IN  IF \E r \in s.profiles : hit(r)
        THEN [s EXCEPT !.profiles =
                { IF hit(r)
                  THEN [r EXCEPT !.fields = ProfileFields(f, pidx),
                                 !.upd = now, !.by = by]
                  ELSE r : r \in s.profiles }]
        ELSE [s EXCEPT !.profiles = @ \cup
                { [id |-> NextId(s.profiles), cycle_id |-> cid,
                   modality |-> Modality(f), profile_index |-> pidx - 1,
                   fields |-> ProfileFields(f, pidx), upd |-> now, by |-> by] }]

\* profile_id = cur.fetchone()[0]
ProfileId(s, f, pidx) ==
    (CHOOSE r \in s.profiles :
        r.cycle_id = CycleId(s, f) /\ r.modality = Modality(f)
        /\ r.profile_index = pidx - 1).id

\* mutant of Least: the profile's time overwrites the stored one
Least_Overwrite(cur, t) ==
    IF t = NULL THEN cur ELSE t

\* LEAST(COALESCE(cur, t), t): NULLs are ignored, NULL only when both are
Least(cur, t) ==
    IF t = NULL THEN cur ELSE IF cur = NULL THEN t ELSE Min(cur, t)

\* mutant of Greatest: the profile's time overwrites the stored one
Greatest_Overwrite(cur, t) ==
    IF t = NULL THEN cur ELSE t

\* GREATEST(COALESCE(cur, t), t)
Greatest(cur, t) ==
    IF t = NULL THEN cur ELSE IF cur = NULL THEN t ELSE Max(cur, t)

\* COALESCE(meta_json, '{}') || global_attrs : keys of the right side win
MergeMeta(meta, ga) ==
    { kv \in meta : ~ \E g \in ga : g[1] = kv[1] } \cup ga

\* UPDATE floats SET first_profile_time, last_profile_time, meta_json,
\*   updated_at WHERE wmo = %s
UpdateFloatTimes(s, f, pidx, now, by) ==
    LET t == f.profs[pidx].t
    IN  [s EXCEPT !.floats =
            { IF r.wmo = f.wmo
              THEN [r EXCEPT !.first = Least(r.first, t),
                             !.last = Greatest(r.last, t),
                             !.meta = MergeMeta(r.meta, f.ga),
                             !.upd = now, !.by = by]
              ELSE r : r \in s.floats }]

\* core_rows: one row per level index i in range(n_core)
CoreRows(f, pidx, pid, by) ==
    { [profile_id |-> pid, level_index |-> i - 1, val |-> f.profs[pidx].core[i],
       by |-> by] : i \in 1..Len(f.profs[pidx].core) }

\* mutant of ReplaceCoreLevels: the rows are inserted over the old ones,
\* without the DELETE
ReplaceCoreLevels_NoDelete(s, f, pidx, now, by) ==
    LET pid == ProfileId(s, f, pidx)
        fresh == CoreRows(f, pidx, pid, by)
    IN  [s EXCEPT !.core =
            { r \in @ : ~ \E n \in fresh : n.profile_id = r.profile_id
                                            /\ n.level_index = r.level_index }
            \cup fresh]

\* DELETE FROM levels_core WHERE profile_id; execute_values(INSERT ...)
ReplaceCoreLevels(s, f, pidx, now, by) ==
    LET pid == ProfileId(s, f, pidx)
    IN  [s EXCEPT !.core = { r \in @ : r.profile_id # pid }
                           \cup CoreRows(f, pidx, pid, by)]

\* row[i] if (row is not None and i < len(row)) else None, i from 1
At(row, i) == IF i <= Len(row) THEN row[i] ELSE None

\* _row_has_signal(row, fill, phys): some value of the row survives
\* _clean_val(v, _fill=fill, phys_key=phys)
RowHasSignal(row, fill, phys) ==
    \E i \in 1..Len(row) : CleanVal(row[i], fill, None, None, phys) # None

\* guard 1: has_any_bgc
HasAnyBgc(f, pr) ==
    \/ RowHasSignal(pr.bgc.doxy, f.attrs.fill, "doxy")
    \/ RowHasSignal(pr.bgc.doxyAdj, f.attrs.fill, "doxy")
    \/ RowHasSignal(pr.bgc.chla, f.attrs.fill, "chla")
    \/ RowHasSignal(pr.bgc.chlaAdj, f.attrs.fill, "chla")

\* n_bgc: the length of the pressure row, else of the longer BGC row
NBgc(pr) ==
    IF Len(pr.bgc.pres) # 0 THEN Len(pr.bgc.pres)
    ELSE Max(Len(pr.bgc.doxy), Len(pr.bgc.chla))

\* the cleaned values of BGC level i (from 1) of a profile
BgcLevel(f, pr, i) ==
    [pres |-> CleanVal(At(pr.bgc.pres, i), f.attrs.fill, None, None, "pres"),
     doxy |-> CleanVal(At(pr.bgc.doxy, i), f.attrs.fill, None, f.attrs.doxyMax,
                       "doxy"),
     doxy_adjusted |-> CleanVal(At(pr.bgc.doxyAdj, i), f.attrs.fill, None,
                                f.attrs.doxyMax, "doxy"),
     chla |-> CleanVal(At(pr.bgc.chla, i), f.attrs.fill, None, None, "chla"),
     chla_adjusted |-> CleanVal(At(pr.bgc.chlaAdj, i), f.attrs.fill, None, None,
                                "chla")]

\* mutant of KeepBgcLevel: only the pressure is tested
KeepBgcLevel_PressureOnly(lv) == lv.pres # None

\* guard 2: a level without pressure or without any BGC value is skipped
KeepBgcLevel(lv) ==
    /\ lv.pres # None
    /\ ~ (lv.doxy = None /\ lv.doxy_adjusted = None /\ lv.chla = None
          /\ lv.chla_adjusted = None)

\* bgc_rows
BgcRows(f, pidx, pid, by) ==
    LET pr == f.profs[pidx]
    IN  { [profile_id |-> pid, level_index |-> i - 1, lv |-> BgcLevel(f, pr, i),
           by |-> by] :
          i \in { j \in 1..NBgc(pr) : KeepBgcLevel(BgcLevel(f, pr, j)) } }

\* mutant of ReplaceBgcLevels: guard 1 moves on to the next profile without
\* the DELETE
ReplaceBgcLevels_SkipWithoutDelete(s, f, pidx, now, by) ==
    LET pid == ProfileId(s, f, pidx)
    IN  IF ~ HasAnyBgc(f, f.profs[pidx])
        THEN s
        ELSE [s EXCEPT !.bgc = { r \in @ : r.profile_id # pid }
                               \cup BgcRows(f, pidx, pid, by)]

\* DELETE FROM levels_bgc WHERE profile_id, then (unless guard 1 skips the
\* profile) execute_values(INSERT ...)
ReplaceBgcLevels(s, f, pidx, now, by) ==
    LET pid == ProfileId(s, f, pidx)
    IN  IF ~ HasAnyBgc(f, f.profs[pidx])
        THEN [s EXCEPT !.bgc = { r \in @ : r.profile_id # pid }]
        ELSE [s EXCEPT !.bgc = { r \in @ : r.profile_id # pid }
                               \cup BgcRows(f, pidx, pid, by)]

\* number of SQL statements ingest_file issues for file f
NStmts(f) == 2 + 4 * Len(f.profs)

\* mutant of ExecStmt: the float_cycles row is written before the floats
\* row it refers to
ExecStmt_CycleFirst(s, f, n, now, by) ==
    IF n = 1 THEN UpsertCycle(s, f, now, by)
    ELSE IF n = 2 THEN UpsertFloat(s, f, now, by)
    ELSE LET pidx == ((n - 3) \div 4) + 1
             k == (n - 3) % 4
         IN  CASE k = 0 -> UpsertProfile(s, f, pidx, now, by)
               [] k = 1 -> UpdateFloatTimes(s, f, pidx, now, by)
               [] k = 2 -> ReplaceCoreLevels(s, f, pidx, now, by)
               [] OTHER -> ReplaceBgcLevels(s, f, pidx, now, by)

\* the n-th statement of ingest_file(f) applied to store s
ExecStmt(s, f, n, now, by) ==
    IF n = 1 THEN UpsertFloat(s, f, now, by)
    ELSE IF n = 2 THEN UpsertCycle(s, f, now, by)
    ELSE LET pidx == ((n - 3) \div 4) + 1
             k == (n - 3) % 4
         IN  CASE k = 0 -> UpsertProfile(s, f, pidx, now, by)
               [] k = 1 -> UpdateFloatTimes(s, f, pidx, now, by)
               [] k = 2 -> ReplaceCoreLevels(s, f, pidx, now, by)
               [] OTHER -> ReplaceBgcLevels(s, f, pidx, now, by)

\* the first n statements of ingest_file(f), in program order
RECURSIVE RunStmts(_, _, _, _, _)
RunStmts(s, f, n, now, by) ==
    IF n = 0 THEN s
    ELSE ExecStmt(RunStmts(s, f, n - 1, now, by), f, n, now, by)

-----------------------------------------------------------------------------
(* loader.py: walk_and_ingest, and transform.py: ingest_file as its step *)

\* Places where ingest_file can raise outside a database statement, given
\* as the number of statements already executed: opening the dataset (0),
\* reading dimensions and arrays (2), slicing the arrays of profile pidx
\* before its profiles row is written, and slicing its BGC arrays after its
\* core levels were replaced.
PyFailPoints(f) ==
    {0, 2} \cup { 2 + 4 * (p - 1) : p \in 1..Len(f.profs) }
           \cup { 2 + 4 * (p - 1) + 3 : p \in 1..Len(f.profs) }

\* now() is the start time of the transaction the statement runs in
TxNow == IF txState = "open" THEN txStart ELSE clock + 1

\* the store without its update timestamps (and without the history tag)
Proj(s) ==
    [floats |-> { [wmo |-> r.wmo, dac |-> r.dac, first |-> r.first,
                   last |-> r.last, meta |-> r.meta] : r \in s.floats },
     cycles |-> { [id |-> r.id, wmo |-> r.wmo, cycle_number |-> r.cycle_number] :
                   r \in s.cycles },
     profiles |-> { [id |-> r.id, cycle_id |-> r.cycle_id, modality |-> r.modality,
                     profile_index |-> r.profile_index, fields |-> r.fields] :
                     r \in s.profiles },
     core |-> { [profile_id |-> r.profile_id, level_index |-> r.level_index,
                 val |-> r.val] : r \in s.core },
     bgc |-> { [profile_id |-> r.profile_id, level_index |-> r.level_index,
                lv |-> r.lv] : r \in s.bgc }]

\* history bookkeeping shared by the outcomes of one ingest_file call
Logged(f, plan, ok, store) ==
    /\ clock' = clock + 1
    /\ todo' = todo \ {f}
    /\ calls' = Append(calls, [file |-> f.name, conn |-> conn, plan |-> plan,
                                 ok |-> ok])
    /\ last' = [file |-> f.name, ok |-> ok, snap |-> Proj(store),
                same |-> last.ok /\ last.file = f.name, before |-> last.snap]
    /\ UNCHANGED <<fvars, mvars, xvars>>

\* with psycopg2.connect(DSN) as conn: os.walk starts; which of the files
\* exist under ROOT/dac shows as the run goes on
Connect ==
    /\ txState = "closed"
    /\ clock < MaxCalls
    /\ todo' = NcFiles
    /\ txState' = "idle"
    /\ tx' = db
    /\ conn' = conn + 1
    /\ UNCHANGED <<db, txStart, clock, calls, last>>
    /\ UNCHANGED <<fvars, mvars, xvars>>

\* parse_rel raises before the dataset is opened or a statement is issued
IngestParseFail(f) ==
    /\ txState # "closed" /\ f \in todo /\ clock < MaxCalls
    /\ ~ ParseRel(f).ok
    /\ Logged(f, "parse", FALSE, db)
    /\ UNCHANGED <<db, tx, txState, txStart, conn>>

\* every statement succeeds; conn.commit() ends the transaction
IngestOk(f) ==
    /\ txState \in {"idle", "open"} /\ f \in todo /\ clock < MaxCalls
    /\ ParseRel(f).ok
    /\ tx' = RunStmts(tx, f, NStmts(f), TxNow, clock + 1)
    /\ db' = tx'
    /\ txState' = "idle"
    /\ txStart' = 0
    /\ Logged(f, "ok", TRUE, tx')
    /\ UNCHANGED conn

\* an exception outside the database after n statements: ingest_file has
\* no except clause and no rollback, so the n statements stay pending in
\* the connection's transaction; the driver catches and goes on
IngestPyFail(f, n) ==
    /\ txState \in {"idle", "open"} /\ f \in todo /\ clock < MaxCalls
    /\ ParseRel(f).ok
    /\ n \in PyFailPoints(f)
    /\ tx' = RunStmts(tx, f, n, TxNow, clock + 1)
    /\ txState' = IF n = 0 THEN txState ELSE "open"
    /\ txStart' = IF n = 0 THEN txStart ELSE TxNow
    /\ Logged(f, "py", FALSE, db)
    /\ UNCHANGED <<db, conn>>

\* statement n+1 fails in the database: the server aborts the transaction
\* and discards its work; the connection stays in the failed transaction
\* because nothing calls rollback
IngestDbFail(f, n) ==
    /\ txState \in {"idle", "open"} /\ f \in todo /\ clock < MaxCalls
    /\ ParseRel(f).ok
    /\ n \in 0..(NStmts(f) - 1)
    /\ tx' = db
    /\ txState' = "aborted"
    /\ txStart' = 0
    /\ Logged(f, "db", FALSE, db)
    /\ UNCHANGED <<db, conn>>

\* the connection is in a failed transaction: the first cur.execute of
\* ingest_file raises InFailedSqlTransaction although the file is sound
IngestAborted(f) ==
    /\ txState = "aborted" /\ f \in todo /\ clock < MaxCalls
    /\ ParseRel(f).ok
    /\ Logged(f, "ok", FALSE, db)
    /\ UNCHANGED <<db, tx, txState, txStart, conn>>

\* os.walk has yielded the files there were (at least one); leaving the
\* with block without an exception: conn.commit(), which commits what is
\* pending, or ends a failed transaction by rolling back
Close ==
    /\ txState # "closed" /\ todo # NcFiles
    /\ db' = IF txState = "aborted" THEN db ELSE tx
    /\ tx' = db'
    /\ txState' = "closed"
    /\ txStart' = 0
    /\ UNCHANGED <<conn, clock, todo, calls, last>>
    /\ UNCHANGED <<fvars, mvars, xvars>>

NoSnap == Proj(EmptyStore)

-----------------------------------------------------------------------------
(* extract.py: try_download_from_servers, download_file_from_any *)

\* len(MIRRORS)
NMirrors == 5

\* retries_each, the max_tries download_file_from_any passes on
RetriesEach == 2

\* the default max_tries, used by the index downloads of main
DefaultMaxTries == 3

\* the cap of the backoff wait, in seconds
MaxWait == 8

\* relative paths of profile files, as the index lists them
RelPaths == { "aoml/1900001/profiles/R1900001_001.nc",
              "aoml/1900001/profiles/D1900001_001.nc" }

\* os.path.join(dest_root, "dac", rel_path.replace("/", os.sep))
OutPath(rel) == <<"argo_nc", "dac", rel>>

\* os.path.join(args.index_dir, INDEX_CORE)
IndexPath == <<"indexes", "ar_index_global_prof.txt.gz">>

\* os.path.exists
Exists(files, path) == \E x \in files : x.path = path

RECURSIVE Pow(_, _)
Pow(b, e) == IF e = 0 THEN 1 ELSE b * Pow(b, e - 1)

\* min(1.0 * (backoff ** k), 8.0) with backoff = 2.0
Backoff(k) == Min(Pow(2, k), MaxWait)

NoErr == [mirror |-> 0, try |-> 0]

NoResult == [path |-> "", success |-> FALSE, msg |-> "none", err |-> NoErr,
             server |-> 0]

\* the server lists main can pass: [args.server] or MIRRORS
ServerCounts == {1, NMirrors}

\* the mirrors explored as the one that served a file: the first and the
\* last of a list of n
Serving(n) == {1, n}

DlIdle ==
    [pc |-> "idle", kind |-> "file", rel |-> "", n |-> 0, mt |-> 0, mi |-> 0,
     k |-> 0, log |-> << >>, lastErr |-> NoErr, base |-> 0, blob |-> NoErr,
     result |-> NoResult, raised |-> NoErr, hadOk |-> FALSE,
     fs0 |-> {}, ncalls |-> 0]

\* entry of download_file_from_any(base_servers, rel_path, ...): the
\* destination exists, so it returns (rel_path, True, "exists", None)
DlCallExists(rel, n) ==
    /\ dl.pc \in {"idle", "done"} /\ dl.ncalls < MaxFetchCalls
    /\ Exists(fs, OutPath(rel))
    /\ dl' = [DlIdle EXCEPT !.pc = "done", !.rel = rel, !.n = n,
                !.mt = RetriesEach, !.hadOk = (rel \in fetched), !.fs0 = fs,
                !.ncalls = dl.ncalls + 1,
                !.result = [path |-> rel, success |-> TRUE, msg |-> "exists",
                            err |-> NoErr, server |-> 0]]
    /\ fetched' = fetched \cup {rel}
    /\ UNCHANGED fs
    /\ UNCHANGED <<ivars, mvars, xvars>>

\* mutant of DlCallFetch: the os.path.exists check is missing
DlCallFetch_NoExistsCheck(rel, n) ==
    /\ dl.pc \in {"idle", "done"} /\ dl.ncalls < MaxFetchCalls
    /\ dl' = [DlIdle EXCEPT !.pc = "try", !.rel = rel, !.n = n,
                !.mt = RetriesEach, !.mi = 1, !.hadOk = (rel \in fetched),
                !.fs0 = fs, !.ncalls = dl.ncalls + 1]
    /\ UNCHANGED <<fs, fetched>>
    /\ UNCHANGED <<ivars, mvars, xvars>>

\* entry of download_file_from_any: the destination is absent; ensure_dir,
\* then try_download_from_servers(..., max_tries=retries_each) starts at
\* the first mirror
DlCallFetch(rel, n) ==
    /\ dl.pc \in {"idle", "done"} /\ dl.ncalls < MaxFetchCalls
    /\ ~ Exists(fs, OutPath(rel))
    /\ dl' = [DlIdle EXCEPT !.pc = "try", !.rel = rel, !.n = n,
                !.mt = RetriesEach, !.mi = 1, !.hadOk = (rel \in fetched),
                !.fs0 = fs, !.ncalls = dl.ncalls + 1]
    /\ UNCHANGED <<fs, fetched>>
    /\ UNCHANGED <<ivars, mvars, xvars>>

\* main, core index not cached: try_download_from_servers(servers,
\* INDEX_CORE) with the default max_tries, outside any try block
DlCallIndex(n) ==
    /\ dl.pc \in {"idle", "done"} /\ dl.ncalls < MaxFetchCalls
    /\ ~ Exists(fs, IndexPath)
    /\ dl' = [DlIdle EXCEPT !.pc = "try", !.kind = "index", !.rel = "index",
                !.n = n, !.mt = DefaultMaxTries, !.mi = 1, !.fs0 = fs,
                !.ncalls = dl.ncalls + 1]
    /\ UNCHANGED <<fs, fetched>>
    /\ UNCHANGED <<ivars, mvars, xvars>>

\* mutant of RequestOk: returns the head of the server list, not the
\* mirror that answered
RequestOk_FirstServer ==
    /\ dl.pc = "try"
    /\ dl' = [dl EXCEPT !.pc = "save", !.base = 1,
                !.blob = [mirror |-> dl.mi, try |-> dl.k + 1],
                !.log = Append(@, [mirror |-> dl.mi, try |-> dl.k + 1,
                                   ok |-> TRUE, wait |-> 0])]
    /\ UNCHANGED <<fs, fetched>>
    /\ UNCHANGED <<ivars, mvars, xvars>>

\* one loop iteration of try_download_from_servers whose http_get returns:
\* return base, blob
RequestOk ==
    /\ dl.pc = "try"
    /\ dl' = [dl EXCEPT !.pc = "save", !.base = dl.mi,
                !.blob = [mirror |-> dl.mi, try |-> dl.k + 1],
                !.log = Append(@, [mirror |-> dl.mi, try |-> dl.k + 1,
                                   ok |-> TRUE, wait |-> 0])]
    /\ UNCHANGED <<fs, fetched>>
    /\ UNCHANGED <<ivars, mvars, xvars>>

\* mutant of Exhausted: raises the generic RuntimeError("All mirrors
\* failed.") instead of last_err
Exhausted_GenericError(d) ==
    IF d.kind = "file"
    THEN [d EXCEPT !.pc = "done",
            !.result = [path |-> d.rel, success |-> FALSE, msg |-> "error",
                        err |-> NoErr, server |-> 0]]
    ELSE [d EXCEPT !.pc = "done", !.raised = NoErr]

\* what download_file_from_any / main do with the exception raised after
\* the last try of the last mirror: raise last_err
Exhausted(d) ==
    IF d.kind = "file"
    THEN [d EXCEPT !.pc = "done",
            !.result = [path |-> d.rel, success |-> FALSE, msg |-> "error",
                        err |-> d.lastErr, server |-> 0]]
    ELSE [d EXCEPT !.pc = "done", !.raised = d.lastErr]

\* mutant of RequestFail: a failed request moves on to the next mirror at
\* once, without the remaining tries of this mirror
RequestFail_NoRetry ==
    /\ dl.pc = "try"
    /\ LET e == [mirror |-> dl.mi, try |-> dl.k + 1]
           d == [dl EXCEPT !.lastErr = e,
                   !.log = Append(@, [mirror |-> dl.mi, try |-> dl.k + 1,
                                      ok |-> FALSE, wait |-> Backoff(dl.k)])]
       IN  dl' = IF dl.mi < dl.n
                 THEN [d EXCEPT !.mi = dl.mi + 1, !.k = 0]
                 ELSE Exhausted(d)
    /\ UNCHANGED <<fs, fetched>>
    /\ UNCHANGED <<ivars, mvars, xvars>>

\* mutant of RequestFail: every mirror gets one try more than max_tries
RequestFail_ExtraTry ==
    /\ dl.pc = "try"
    /\ LET e == [mirror |-> dl.mi, try |-> dl.k + 1]
           d == [dl EXCEPT !.lastErr = e,
                   !.log = Append(@, [mirror |-> dl.mi, try |-> dl.k + 1,
                                      ok |-> FALSE, wait |-> Backoff(dl.k)])]
       IN  dl' = IF dl.k < dl.mt
                 THEN [d EXCEPT !.k = dl.k + 1]
                 ELSE IF dl.mi < dl.n
                      THEN [d EXCEPT !.mi = dl.mi + 1, !.k = 0]
                      ELSE Exhausted(d)
    /\ UNCHANGED <<fs, fetched>>
    /\ UNCHANGED <<ivars, mvars, xvars>>

\* one loop iteration whose http_get raises: last_err = e, sleep, then the
\* next try of this mirror, or the next mirror, or raise last_err
RequestFail ==
    /\ dl.pc = "try"
    /\ LET e == [mirror |-> dl.mi, try |-> dl.k + 1]
           d == [dl EXCEPT !.lastErr = e,
                   !.log = Append(@, [mirror |-> dl.mi, try |-> dl.k + 1,
                                      ok |-> FALSE, wait |-> Backoff(dl.k)])]
       IN  dl' = IF dl.k + 1 < dl.mt
                 THEN [d EXCEPT !.k = dl.k + 1]
                 ELSE IF dl.mi < dl.n
                      THEN [d EXCEPT !.mi = dl.mi + 1, !.k = 0]
                      ELSE Exhausted(d)
    /\ UNCHANGED <<fs, fetched>>
    /\ UNCHANGED <<ivars, mvars, xvars>>

\* save_bytes(out_path, blob) succeeds, and the success tuple is returned
SaveOk ==
    /\ dl.pc = "save"
    /\ LET path == IF dl.kind = "file" THEN OutPath(dl.rel) ELSE IndexPath
       IN  fs' = { x \in fs : x.path # path }
                 \cup { [path |-> path, content |-> dl.blob, complete |-> TRUE] }
    /\ dl' = [dl EXCEPT !.pc = "done",
                !.result = IF dl.kind = "file"
                           THEN [path |-> dl.rel, success |-> TRUE, msg |-> "ok",
                                 err |-> NoErr, server |-> dl.base]
                           ELSE NoResult]
    /\ fetched' = IF dl.kind = "file" THEN fetched \cup {dl.rel} ELSE fetched
    /\ UNCHANGED <<ivars, mvars, xvars>>

\* save_bytes raises (disk full, permission): open(path, "wb") may already
\* have created the file.  download_file_from_any catches and reports
\* failure with the server that was used; main lets it propagate.
SaveFail(created) ==
    /\ dl.pc = "save"
    /\ LET path == IF dl.kind = "file" THEN OutPath(dl.rel) ELSE IndexPath
       IN  fs' = IF created
                 THEN { x \in fs : x.path # path }
                      \cup { [path |-> path, content |-> dl.blob,
                              complete |-> FALSE] }
                 ELSE fs
    /\ dl' = IF dl.kind = "file"
             THEN [dl EXCEPT !.pc = "done",
                     !.result = [path |-> dl.rel, success |-> FALSE,
                                 msg |-> "oserror", err |-> NoErr,
                                 server |-> dl.base]]
             ELSE [dl EXCEPT !.pc = "done",
                     !.raised = [mirror |-> dl.base, try |-> 0]]
    /\ UNCHANGED fetched
    /\ UNCHANGED <<ivars, mvars, xvars>>

\* files a previous, interrupted or complete, run left at the destination
OldFiles ==
    { [path |-> OutPath(rel), content |-> NoErr, complete |-> TRUE] :
        rel \in RelPaths }

-----------------------------------------------------------------------------
(* extract.py: load_index_csv_any, index_date_in_range, main *)

PA == "aoml/1900001/profiles/R1900001_001.nc"

PB == "aoml/1900001/profiles/D1900001_001.nc"

PS == "aoml/1900001/profiles/SR1900001_002.nc"

\* A line of an index file, split at the sniffed delimiter: a '#' comment,
\* a blank line, or fields.
Comment == [k |-> "comment", f |-> <<"# argo index">>]

Blank == [k |-> "blank", f |-> << >>]

Row(fields) == [k |-> "fields", f |-> fields]

\* core index contents explored: no line at all; comments only; a header
\* without an ocean column; no row of the requested ocean; header only; a
\* preamble, a capitalised header and rows of which two distinct paths fall
\* in the window (one listed twice, one out of the window, one of another
\* ocean, one without a path, one short row)
CoreIndexes ==
    { << >>,
      << Comment, Blank, Comment >>,
      << Comment, Row(<<"file", "date">>), Row(<<PA, "20240115120000">>) >>,
      << Row(<<"file", "date", "ocean">>), Row(<<PA, "20240115120000", "A">>) >>,
      << Comment, Row(<<"file", "date", "ocean">>) >>,
      << Comment, Blank, Row(<<"FILE", " date_update", "Ocean">>),
         Row(<<PA, "20240115120000", "I">>), Blank,
         Row(<<PB, "2024-01-01T00:00:00Z", " i ">>),
         Row(<<PA, "20240101000000", "I">>),
         Row(<<PS, "20240201000000", "I">>),
         Row(<<PB, "20240115120000", "A">>),
         Row(<<"", "20240115120000", "I">>),
         Row(<<PS>>) >> }

\* BGC index contents explored: comments only; no ocean column; rows
\* without a date column
BgcIndexes ==
    { << Comment >>,
      << Row(<<"file", "date">>), Row(<<PS, "20240115120000">>) >>,
      << Comment, Row(<<"file", "ocean">>), Row(<<PS, "I">>), Row(<<PA, "I">>) >> }

\* str.strip().lower() on the header tokens used
NormHeader(t) ==
    CASE t = "FILE" -> "file"
      [] t = " date_update" -> "date_update"
      [] t = "Ocean" -> "ocean"
      [] OTHER -> t

\* str.strip() on the field values used
Strip(t) == IF t = " i " THEN "i" ELSE t

\* _strip_hash_preamble: drop the leading run of comment and blank lines
RECURSIVE StripHashPreamble(_)
StripHashPreamble(lines) ==
    IF lines # << >> /\ Head(lines).k \in {"comment", "blank"}
    THEN StripHashPreamble(Tail(lines))
    ELSE lines

\* _find_header_idx: the first line one of whose stripped, lower-cased
\* fields is "file"; 0 (here 1) when there is none
FindHeaderIdx(lines) ==
    LET hits == { i \in 1..Len(lines) :
                    \E j \in 1..Len(lines[i].f) : NormHeader(lines[i].f[j]) = "file" }
    IN  IF hits = {} THEN 1 ELSE CHOOSE i \in hits : \A h \in hits : i <= h

\* one data row of csv.reader as the dict main reads: the values of the
\* header's columns, short rows padded with ""
PadRow(fields, width) ==
    [i \in 1..width |-> IF i <= Len(fields) THEN Strip(fields[i]) ELSE ""]

RECURSIVE DataRows(_, _)
DataRows(lines, width) ==
    IF lines = << >> THEN << >>
    ELSE IF Head(lines).k = "blank" THEN DataRows(Tail(lines), width)
    ELSE <<PadRow(Head(lines).f, width)>> \o DataRows(Tail(lines), width)

\* load_index_csv_any: (rows, norm_header); ([], []) when nothing is left
\* after the preamble
LoadIndexCsvAny(lines) ==
    LET woComments == StripHashPreamble(lines)
    IN  IF woComments = << >>
        THEN [rows |-> << >>, header |-> << >>]
        ELSE LET data == SubSeq(woComments, FindHeaderIdx(woComments),
                                Len(woComments))
                 header == [i \in 1..Len(Head(data).f) |->
                               NormHeader(Head(data).f[i])]
             IN  [rows |-> DataRows(Tail(data), Len(header)), header |-> header]

\* row.get(key, ""): the dict keeps the last column of a repeated name
Get(row, header, key) ==
    LET at == { i \in 1..Len(header) : header[i] = key }
    IN  IF at = {} THEN "" ELSE row[CHOOSE i \in at : \A h \in at : h <= i]

\* build_colmap: per logical column the first alias found in the header,
\* "" when none is
FirstAlias(opts, header) ==
    LET found == { i \in 1..Len(opts) :
                     \E j \in 1..Len(header) : header[j] = opts[i] }
    IN  IF found = {} THEN ""
        ELSE opts[CHOOSE i \in found : \A h \in found : i <= h]

BuildColmap(header) ==
    [file |-> FirstAlias(<<"file", "filepath", "path", "ncfile", "nc_file">>, header),
     date |-> FirstAlias(<<"date", "date_update", "date_creation", "datefile",
                           "date_time", "filedate">>, header),
     ocean |-> FirstAlias(<<"ocean", "basin">>, header)]

\* the characters of the date values explored; every other value used in
\* a date column is the empty string
DateChars(t) ==
    CASE t = "20231231235959" ->
           <<"2", "0", "2", "3", "1", "2", "3", "1", "2", "3", "5", "9", "5", "9">>
      [] t = "20240101000000" ->
           <<"2", "0", "2", "4", "0", "1", "0", "1", "0", "0", "0", "0", "0", "0">>
      [] t = "2024-01-01T00:00:00Z" ->
           <<"2", "0", "2", "4", "-", "0", "1", "-", "0", "1", "T", "0", "0", ":", "0", "0", ":", "0", "0", "Z">>
      [] t = "20240101000001" ->
           <<"2", "0", "2", "4", "0", "1", "0", "1", "0", "0", "0", "0", "0", "1">>
      [] t = "20240115120000" ->
           <<"2", "0", "2", "4", "0", "1", "1", "5", "1", "2", "0", "0", "0", "0">>
      [] t = "20240131235959" ->
           <<"2", "0", "2", "4", "0", "1", "3", "1", "2", "3", "5", "9", "5", "9">>
      [] t = "2024-01-31T23:59:59Z" ->
           <<"2", "0", "2", "4", "-", "0", "1", "-", "3", "1", "T", "2", "3", ":", "5", "9", ":", "5", "9", "Z">>
      [] t = "20240201000000" ->
           <<"2", "0", "2", "4", "0", "2", "0", "1", "0", "0", "0", "0", "0", "0">>
      [] t = "2024-02-01T00:00:00Z" ->
           <<"2", "0", "2", "4", "-", "0", "2", "-", "0", "1", "T", "0", "0", ":", "0", "0", ":", "0", "0", "Z">>
      [] t = "20240201000001" ->
           <<"2", "0", "2", "4", "0", "2", "0", "1", "0", "0", "0", "0", "0", "1">>
      [] t = "20250115120000" ->
           <<"2", "0", "2", "5", "0", "1", "1", "5", "1", "2", "0", "0", "0", "0">>
      [] t = "20230115120000" ->
           <<"2", "0", "2", "3", "0", "1", "1", "5", "1", "2", "0", "0", "0", "0">>
      [] t = "2024-01-15T12:00:00.5Z" ->
           <<"2", "0", "2", "4", "-", "0", "1", "-", "1", "5", "T", "1", "2", ":", "0", "0", ":", "0", "0", ".", "5", "Z">>
      [] t = "20240115" ->
           <<"2", "0", "2", "4", "0", "1", "1", "5">>
      [] t = "2024-01-15 12:00:00" ->
           <<"2", "0", "2", "4", "-", "0", "1", "-", "1", "5", " ", "1", "2", ":", "0", "0", ":", "0", "0">>
      [] t = "20240230120000" ->
           <<"2", "0", "2", "4", "0", "2", "3", "0", "1", "2", "0", "0", "0", "0">>
      [] t = "20240115120060" ->
           <<"2", "0", "2", "4", "0", "1", "1", "5", "1", "2", "0", "0", "6", "0">>
      [] t = "20240115240000" ->
           <<"2", "0", "2", "4", "0", "1", "1", "5", "2", "4", "0", "0", "0", "0">>
      [] t = "n/a" ->
           <<"n", "/", "a">>
      [] OTHER -> << >>

\* str.replace("T", "").replace("Z", "").replace("-", "").replace(":", "")
RECURSIVE RemoveSeps(_)
RemoveSeps(cs) ==
    IF cs = << >> THEN cs
    ELSE IF Head(cs) \in {"T", "Z", "-", ":"} THEN RemoveSeps(Tail(cs))
    ELSE <<Head(cs)>> \o RemoveSeps(Tail(cs))

\* s[:14]
First14(cs) == SubSeq(cs, 1, Min(14, Len(cs)))

\* days of a month, as the datetime constructor checks them
DaysIn(y, m) ==
    IF m \in {4, 6, 9, 11} THEN 30
    ELSE IF m = 2
         THEN IF (y % 4 = 0 /\ y % 100 # 0) \/ y % 400 = 0 THEN 29 ELSE 28
         ELSE 31

\* datetime.strptime(s, "%Y%m%d%H%M%S") for a string of fourteen digits,
\* of at most eight digits, or with a character that is no digit: every
\* field takes two digits (the year four) and must be in range, else
\* ValueError.  (Strings of nine to thirteen digits, which strptime reads
\* with one-digit fields, are not among the values explored.)
Strptime(cs) ==
    IF Len(cs) # 14 \/ \E i \in 1..Len(cs) : ~ IsDigit(cs[i])
    THEN [ok |-> FALSE, ymd |-> 0, hms |-> 0]
    ELSE LET ymd == NumOf(SubSeq(cs, 1, 8))
             hms == NumOf(SubSeq(cs, 9, 14))
             y == ymd \div 10000
             m == (ymd \div 100) % 100
             dd == ymd % 100
         IN  [ok |-> /\ y >= 1
                     /\ m \in 1..12
                     /\ dd >= 1 /\ dd <= DaysIn(y, m)
                     /\ hms \div 10000 <= 23
                     /\ (hms \div 100) % 100 <= 59
                     /\ hms % 100 <= 59,
              ymd |-> ymd, hms |-> hms]

\* --start 2024-01-01 --end 2024-02-01
WindowStart == 20240101

WindowEnd == 20240201

\* mutant of IndexDateInRange: the end of the window is included
IndexDateInRange_EndInclusive(t) ==
    LET s == StripChars(DateChars(t))
        dt == Strptime(First14(RemoveSeps(s)))
    IN  /\ s # << >>
        /\ dt.ok
        /\ dt.ymd >= WindowStart
        /\ dt.ymd < WindowEnd \/ (dt.ymd = WindowEnd /\ dt.hms = 0)

\* index_date_in_range: dt >= a and dt < b, a and b being midnight of the
\* start and of the end date
IndexDateInRange(t) ==
    LET s == StripChars(DateChars(t))
        dt == Strptime(First14(RemoveSeps(s)))
    IN  /\ s # << >>
        /\ dt.ok
        /\ dt.ymd >= WindowStart
        /\ dt.ymd < WindowEnd

\* str.upper on the ocean values used
UpperOcean(t) == IF t = "i" THEN "I" ELSE t

\* mutant of KeepRow: an index without a date column selects nothing
KeepRow_DateRequired(row, header, cmap, oceanLetter) ==
    /\ cmap.date # ""
    /\ IndexDateInRange(Get(row, header, cmap.date))
    /\ cmap.ocean # ""
    /\ UpperOcean(Strip(Get(row, header, cmap.ocean))) = oceanLetter

\* keep_row
KeepRow(row, header, cmap, oceanLetter) ==
    /\ cmap.date # "" => IndexDateInRange(Get(row, header, cmap.date))
    /\ cmap.ocean # ""
    /\ UpperOcean(Strip(Get(row, header, cmap.ocean))) = oceanLetter

\* the scan of one index: the file values of the kept rows, empty ones
\* dropped
RECURSIVE ScanRows(_, _, _, _)
ScanRows(rows, header, cmap, oceanLetter) ==
    IF rows = << >> THEN << >>
    ELSE LET r == Head(rows)
             f == Strip(Get(r, header, cmap.file))
             rest == ScanRows(Tail(rows), header, cmap, oceanLetter)
         IN  IF KeepRow(r, header, cmap, oceanLetter) /\ f # ""
             THEN <<f>> \o rest ELSE rest

\* mutant of Dedup: of a path listed more than once the last occurrence
\* is kept
RECURSIVE Dedup_LastOccurrence(_, _)
Dedup_LastOccurrence(sel, seen) ==
    IF sel = << >> THEN << >>
    ELSE IF \E i \in 2..Len(sel) : sel[i] = Head(sel)
         THEN Dedup_LastOccurrence(Tail(sel), seen)
         ELSE <<Head(sel)>> \o Dedup_LastOccurrence(Tail(sel), seen)

\* mutant of Dedup: every selected value is kept
Dedup_KeepAll(sel, seen) == sel

\* DEDUP: first occurrences, in order
RECURSIVE Dedup(_, _)
Dedup(sel, seen) ==
    IF sel = << >> THEN << >>
    ELSE IF Head(sel) \in seen THEN Dedup(Tail(sel), seen)
    ELSE <<Head(sel)>> \o Dedup(Tail(sel), seen \cup {Head(sel)})

\* rel_paths as main computes it from the parsed indexes
SelectPaths(m) ==
    LET coreMap == BuildColmap(m.coreHeader)
        bgcMap == IF m.bgc THEN BuildColmap(m.bgcHeader)
                  ELSE [file |-> "", date |-> "", ocean |-> ""]
        core == ScanRows(m.coreRows, m.coreHeader, coreMap, m.ocean)
        bgc == IF m.bgc /\ m.bgcRows # << >> /\ bgcMap.ocean # ""
               THEN ScanRows(m.bgcRows, m.bgcHeader, bgcMap, m.ocean)
               ELSE << >>
    IN  Dedup(core \o bgc, {})

\* --ocean arguments explored, as character sequences
OceanArgs == { <<"I">>, <<" ", "i">>, << >>, <<" ">>, <<"I", "O">> }

\* ocean_letter = (args.ocean or "").strip().upper()
OceanLetter(arg) == [i \in 1..Len(StripChars(arg)) |-> UpperOcean(StripChars(arg)[i])]

MainStart(oceanArg, bgc, workers, forced, coreIdx, bgcIdx) ==
    [pc |-> "args", oceanArg |-> oceanArg, ocean |-> "", bgc |-> bgc,
     workers |-> workers, nservers |-> IF forced THEN 1 ELSE NMirrors,
     coreIdx |-> coreIdx, bgcIdx |-> bgcIdx,
     coreParsed |-> FALSE, coreRows |-> << >>, coreHeader |-> << >>,
     bgcRows |-> << >>, bgcHeader |-> << >>,
     relPaths |-> << >>, ok |-> 0, fail |-> 0, out |-> << >>, exit |-> 0]

\* argument check: --ocean must be a single letter, else sys.exit(2)
MainArgs ==
    /\ mn.pc = "args"
    /\ LET letter == OceanLetter(mn.oceanArg)
       IN  mn' = IF Len(letter) = 1
                 THEN [mn EXCEPT !.pc = "core_index", !.ocean = letter[1],
                         !.oceanArg = << >>]
                 ELSE [mn EXCEPT !.pc = "exit", !.exit = 2,
                         !.out = Append(@, [tag |-> "ERROR", a |-> 2, b |-> 0,
                                            path |-> ""])]
    /\ UNCHANGED <<futs, fs, dl, fetched, ivars, xvars>>

\* the core index is read from the cache, or downloaded and saved, then
\* parsed
MainCoreIndex ==
    /\ mn.pc = "core_index"
    /\ mn' = LET got == LoadIndexCsvAny(mn.coreIdx)
             IN  [mn EXCEPT !.pc = "bgc_index", !.coreParsed = TRUE,
                    !.coreRows = got.rows, !.coreHeader = got.header,
                    !.coreIdx = << >>]
    /\ fs' = { x \in fs : x.path # IndexPath }
             \cup { [path |-> IndexPath, content |-> NoErr, complete |-> TRUE] }
    /\ UNCHANGED <<futs, dl, fetched, ivars, xvars>>

\* the index is not cached and every mirror fails all tries (or the
\* cache file cannot be written): try_download_from_servers (or
\* save_bytes) raises, and main has no handler
MainIndexDownloadFails ==
    /\ mn.pc \in {"core_index", "bgc_index"}
    /\ mn.pc = "bgc_index" => mn.bgc
    /\ ~ Exists(fs, IF mn.pc = "core_index" THEN IndexPath
                    ELSE <<"indexes", "argo_synthetic-profile_index.txt.gz">>)
    /\ mn' = [mn EXCEPT !.pc = "crashed", !.exit = 1]
    /\ UNCHANGED <<futs, fs, dl, fetched, ivars, xvars>>

\* the BGC index, when --bgc is given, likewise; otherwise skipped
MainBgcIndex ==
    /\ mn.pc = "bgc_index"
    /\ mn' = IF mn.bgc
             THEN LET got == LoadIndexCsvAny(mn.bgcIdx)
                  IN  [mn EXCEPT !.pc = "select", !.bgcRows = got.rows,
                         !.bgcHeader = got.header, !.bgcIdx = << >>]
             ELSE [mn EXCEPT !.pc = "select", !.bgcIdx = << >>]
    /\ fs' = IF mn.bgc
             THEN { x \in fs :
                      x.path # <<"indexes", "argo_synthetic-profile_index.txt.gz">> }
                  \cup { [path |-> <<"indexes", "argo_synthetic-profile_index.txt.gz">>,
                          content |-> NoErr, complete |-> TRUE] }
             ELSE fs
    /\ UNCHANGED <<futs, dl, fetched, ivars, xvars>>

NewFuture(rel) == [rel |-> rel, st |-> "pending", raised |-> FALSE, res |-> NoResult]

\* mutant of MainSelect: the check for the ocean column is missing
MainSelect_NoOceanCheck ==
    /\ mn.pc = "select"
    /\ LET paths == SelectPaths(mn)
       IN  /\ mn' = IF paths = << >>
                    THEN [mn EXCEPT !.pc = "returned", !.relPaths = paths,
                            !.out = Append(@, [tag |-> "EMPTY", a |-> 0, b |-> 0,
                                               path |-> ""])]
                    ELSE [mn EXCEPT !.pc = "download", !.relPaths = paths]
           /\ futs' = [i \in 1..Len(paths) |-> NewFuture(paths[i])]
    /\ UNCHANGED <<fs, dl, fetched, ivars, xvars>>

\* column maps, the ocean-column check (sys.exit(3)), the scans, the
\* dedup, the return on an empty selection, and the submission of one
\* task per selected path
MainSelect ==
    /\ mn.pc = "select"
    /\ IF BuildColmap(mn.coreHeader).ocean = ""
       THEN /\ mn' = [mn EXCEPT !.pc = "exit", !.exit = 3,
                        !.out = Append(@, [tag |-> "ERROR", a |-> 3, b |-> 0,
                                           path |-> ""])]
            /\ futs' = futs
       ELSE LET paths == SelectPaths(mn)
            IN  /\ mn' = IF paths = << >>
                         THEN [mn EXCEPT !.pc = "returned", !.relPaths = paths,
                                 !.out = Append(@, [tag |-> "EMPTY", a |-> 0,
                                                    b |-> 0, path |-> ""])]
                         ELSE [mn EXCEPT !.pc = "download", !.relPaths = paths]
                /\ futs' = [i \in 1..Len(paths) |-> NewFuture(paths[i])]
    /\ UNCHANGED <<fs, dl, fetched, ivars, xvars>>

\* ThreadPoolExecutor(max_workers=max(1, int(args.workers)))
PoolSize == Max(1, mn.workers)

Running == { i \in 1..Len(futs) : futs[i].st = "running" }

\* a free worker takes the oldest pending task
CanStart(i) ==
    /\ mn.pc = "download"
    /\ i \in 1..Len(futs) /\ futs[i].st = "pending"
    /\ \A h \in 1..(i - 1) : futs[h].st # "pending"
    /\ Cardinality(Running) < PoolSize

\* download_file_from_any finds the destination present
TaskExists(i) ==
    /\ CanStart(i)
    /\ Exists(fs, OutPath(futs[i].rel))
    /\ futs' = [futs EXCEPT ![i].st = "finished",
                  ![i].res = [path |-> futs[i].rel, success |-> TRUE,
                              msg |-> "exists", err |-> NoErr, server |-> 0]]
    /\ UNCHANGED <<mn, fs, dl, fetched, ivars, xvars>>

\* download_file_from_any finds it absent and goes on to fetch
TaskStart(i) ==
    /\ CanStart(i)
    /\ ~ Exists(fs, OutPath(futs[i].rel))
    /\ futs' = [futs EXCEPT ![i].st = "running"]
    /\ UNCHANGED <<mn, fs, dl, fetched, ivars, xvars>>

\* ensure_dir, which is outside the try block, raises: the exception is
\* stored in the future
TaskRaises(i) ==
    /\ CanStart(i)
    /\ ~ Exists(fs, OutPath(futs[i].rel))
    /\ futs' = [futs EXCEPT ![i].st = "finished", ![i].raised = TRUE]
    /\ UNCHANGED <<mn, fs, dl, fetched, ivars, xvars>>

\* the fetch succeeded at some mirror and save_bytes wrote the file
TaskOk(i, server) ==
    /\ mn.pc = "download"
    /\ i \in 1..Len(futs) /\ futs[i].st = "running"
    /\ server \in Serving(mn.nservers)
    /\ futs' = [futs EXCEPT ![i].st = "finished",
                  ![i].res = [path |-> futs[i].rel, success |-> TRUE,
                              msg |-> "ok", err |-> NoErr, server |-> server]]
    /\ fs' = { x \in fs : x.path # OutPath(futs[i].rel) }
             \cup { [path |-> OutPath(futs[i].rel),
                     content |-> [mirror |-> server, try |-> 1],
                     complete |-> TRUE] }
    /\ UNCHANGED <<mn, dl, fetched, ivars, xvars>>

\* every mirror failed every try: (rel_path, False, str(e), None)
TaskFails(i) ==
    /\ mn.pc = "download"
    /\ i \in 1..Len(futs) /\ futs[i].st = "running"
    /\ futs' = [futs EXCEPT ![i].st = "finished",
                  ![i].res = [path |-> futs[i].rel, success |-> FALSE,
                              msg |-> "error",
                              err |-> [mirror |-> mn.nservers, try |-> RetriesEach],
                              server |-> 0]]
    /\ UNCHANGED <<mn, fs, dl, fetched, ivars, xvars>>

\* the fetch succeeded but save_bytes raised, perhaps after creating the
\* file: (rel_path, False, str(e), server_used)
TaskSaveFails(i, server, created) ==
    /\ mn.pc = "download"
    /\ i \in 1..Len(futs) /\ futs[i].st = "running"
    /\ server \in Serving(mn.nservers)
    /\ futs' = [futs EXCEPT ![i].st = "finished",
                  ![i].res = [path |-> futs[i].rel, success |-> FALSE,
                              msg |-> "oserror", err |-> NoErr,
                              server |-> server]]
    /\ fs' = IF created
             THEN { x \in fs : x.path # OutPath(futs[i].rel) }
                  \cup { [path |-> OutPath(futs[i].rel),
                          content |-> [mirror |-> server, try |-> 1],
                          complete |-> FALSE] }
             ELSE fs
    /\ UNCHANGED <<mn, dl, fetched, ivars, xvars>>

\* what one as_completed iteration does to main's counters and output
Tally(m, fut) ==
    IF ~ fut.raised /\ fut.res.success
    THEN [m EXCEPT !.ok = @ + 1,
            !.out = Append(@, [tag |-> "OK", a |-> m.ok + 1, b |-> 0,
                               path |-> fut.res.path])]
    ELSE [m EXCEPT !.fail = @ + 1,
            !.out = Append(@, [tag |-> "FAIL", a |-> m.fail + 1, b |-> 0,
                               path |-> IF fut.raised THEN "<unknown>"
                                        ELSE fut.res.path])]

\* mutant of Collect: fut.result() is called outside the try block, so a
\* future that raised is dropped from the tally
Collect_DropRaised(i) ==
    /\ mn.pc = "download"
    /\ i \in 1..Len(futs) /\ futs[i].st = "finished"
    /\ mn' = IF futs[i].raised THEN mn ELSE Tally(mn, futs[i])
    /\ futs' = [futs EXCEPT ![i].st = "collected"]
    /\ UNCHANGED <<fs, dl, fetched, ivars, xvars>>

\* as_completed yields a finished future, in completion order
Collect(i) ==
    /\ mn.pc = "download"
    /\ i \in 1..Len(futs) /\ futs[i].st = "finished"
    /\ mn' = Tally(mn, futs[i])
    /\ futs' = [futs EXCEPT ![i].st = "collected"]
    /\ UNCHANGED <<fs, dl, fetched, ivars, xvars>>

\* mutant of MainDone: the summary is printed as soon as some future was
\* collected
MainDone_Early ==
    /\ mn.pc = "download"
    /\ \E i \in 1..Len(futs) : futs[i].st = "collected"
    /\ mn' = [mn EXCEPT !.pc = "done",
                !.out = Append(@, [tag |-> "DONE", a |-> mn.ok, b |-> mn.fail,
                                   path |-> ""])]
    /\ UNCHANGED <<futs, fs, dl, fetched, ivars, xvars>>

\* the pool is drained: log("DONE: OK=.. FAIL=..")
MainDone ==
    /\ mn.pc = "download"
    /\ \A i \in 1..Len(futs) : futs[i].st = "collected"
    /\ mn' = [mn EXCEPT !.pc = "done",
                !.out = Append(@, [tag |-> "DONE", a |-> mn.ok, b |-> mn.fail,
                                   path |-> ""])]
    /\ UNCHANGED <<futs, fs, dl, fetched, ivars, xvars>>

-----------------------------------------------------------------------------
(* Single calls of the pure functions *)

LabIdle == [fn |-> "", pc |-> "idle"]

\* raw scalars handed to _clean_val: absent, unconvertible, masked,
\* non-finite, the placeholders, and values at and around every bound
CleanInputs ==
    { None, NotANumber, Masked, NaN, Inf, NegInf,
      Num(-99999), Num(-999), Num(-4), Num(-3), Num(0), Num(2), Num(15),
      Num(40), Num(41), Num(45), Num(46), Num(100), Num(500), Num(501),
      Num(999), Num(1000), Num(9999), Num(12000), Num(12001), Num(99998),
      Num(99999), Sci(100000, 5), Sci(999999, 13), Sci(100000, 14),
      Sci(100000, 15), Sci(996920, 31), Sci(996921, 31), Sci(-996921, 31) }

\* declared _FillValue attributes: none, nan, the usual 99999, the NetCDF
\* default 9.96921e36, and a fill inside the physical ranges
Fills == { None, NaN, Num(99999), Sci(996921, 31), Num(15) }

\* declared valid_min / valid_max attributes
ValidMins == { None, Num(2), NaN }

ValidMaxs == { None, Num(40) }

CleanCalls ==
    { [fn |-> "_clean_val", pc |-> "call", x |-> x, fill |-> f, vmin |-> lo,
       vmax |-> hi, phys |-> k, out |-> None] :
        x \in CleanInputs, f \in Fills, lo \in ValidMins, hi \in ValidMaxs,
        k \in PhysKeys \cup {""} }

\* return of _clean_val
CleanValCall ==
    /\ lab.pc = "call" /\ lab.fn = "_clean_val"
    /\ lab' = [lab EXCEPT !.pc = "ret",
                 !.out = CleanVal(lab.x, lab.fill, lab.vmin, lab.vmax, lab.phys)]
    /\ UNCHANGED <<ivars, fvars, mvars, pg>>

\* QC flags a level can carry
Flags ==
    { Flag("0"), Flag("1"), Flag("2"), Flag("3"), Flag("4"), Flag("5"),
      Flag("8"), Flag("9"), Flag(" "), Flag("A"), QMasked, QNone }

\* raw and adjusted measurements of one level of TEMP or PSAL
LevelRaws == { None, Masked, Num(10), Num(50), Num(99999) }

LevelAdjs == { None, NaN, Num(11), Num(99999) }

LevelCalls ==
    { [fn |-> "core_level", pc |-> "call", var |-> var, raw |-> r, rawq |-> rq,
       adj |-> a, adjq |-> aq, fill |-> Num(99999), V |-> None, VA |-> None,
       best |-> None] :
        var \in {"temp", "psal"}, r \in LevelRaws, rq \in Flags,
        a \in LevelAdjs, aq \in Flags }

\* one iteration of the core level loop for one of TEMP and PSAL: the
\* cleaned raw value, the cleaned adjusted value and the best value
CoreLevelCall ==
    /\ lab.pc = "call" /\ lab.fn = "core_level"
    /\ LET V == CleanVal(lab.raw, lab.fill, None, None, lab.var)
           VA == CleanVal(lab.adj, lab.fill, None, None, lab.var)
       IN  lab' = [lab EXCEPT !.pc = "ret", !.V = V, !.VA = VA,
                     !.best = BestValue(VA, lab.adjq, V, lab.rawq)]
    /\ UNCHANGED <<ivars, fvars, mvars, pg>>

\* values of the date column explored: full timestamps in compact and in
\* ISO form around both ends of the window, and values strptime rejects
DateValues ==
    { "20231231235959", "20240101000000", "2024-01-01T00:00:00Z",
      "20240101000001", "20240115120000", "20240131235959",
      "2024-01-31T23:59:59Z", "20240201000000", "2024-02-01T00:00:00Z",
      "20240201000001", "20250115120000", "20230115120000",
      "2024-01-15T12:00:00.5Z", "20240115", "2024-01-15 12:00:00",
      "20240230120000", "20240115120060", "20240115240000", "n/a", "" }

KeepCalls ==
    { [fn |-> "keep_row", pc |-> "call", date |-> t, ocean |-> oc,
       file |-> f, hasDate |-> hd, letter |-> l, kept |-> FALSE,
       selected |-> << >>] :
        t \in DateValues, oc \in {"I", "i", "A", ""}, f \in {"a.nc", ""},
        hd \in BOOLEAN, l \in {"I", "A"} }

\* the scan of an index of one row: keep_row and the append of the row's
\* file value; the index has its dates in a column named date, or in one
\* named juld, which build_colmap does not resolve
KeepRowCall ==
    /\ lab.pc = "call" /\ lab.fn = "keep_row"
    /\ LET header == IF lab.hasDate THEN <<"file", "date", "ocean">>
                     ELSE <<"file", "juld", "ocean">>
           row == <<lab.file, lab.date, lab.ocean>>
           cmap == BuildColmap(header)
       IN  lab' = [lab EXCEPT !.pc = "ret",
                     !.kept = KeepRow(row, header, cmap, lab.letter),
                     !.selected = ScanRows(<<row>>, header, cmap, lab.letter)]
    /\ UNCHANGED <<ivars, fvars, mvars, pg>>

\* longest list of kept rows of one index explored
MaxKept == 3

FileValues == { "a.nc", "b.nc", "c.nc", "" }

\* the lists of at most max file values
KeptLists(max) == UNION { [1..n -> FileValues] : n \in 0..max }

\* without --bgc the BGC index is not loaded
SelectCalls(max) ==
    { [fn |-> "select", pc |-> "call", core |-> c, bgcOn |-> TRUE, bgc |-> b,
       paths |-> << >>] : c \in KeptLists(max), b \in KeptLists(max) }
    \cup
    { [fn |-> "select", pc |-> "call", core |-> c, bgcOn |-> FALSE,
       bgc |-> << >>, paths |-> << >>] : c \in KeptLists(max) }

\* the two scans and the de-duplication of main, over a core index and a
\* BGC index all of whose rows match the ocean and that have no date column
SelectCall ==
    /\ lab.pc = "call" /\ lab.fn = "select"
    /\ LET m == [coreHeader |-> <<"file", "ocean">>,
                 coreRows |-> [i \in 1..Len(lab.core) |-> <<lab.core[i], "I">>],
                 bgc |-> lab.bgcOn,
                 bgcHeader |-> <<"file", "ocean">>,
                 bgcRows |-> [i \in 1..Len(lab.bgc) |-> <<lab.bgc[i], "i">>],
                 ocean |-> "I"]
       IN  lab' = [lab EXCEPT !.pc = "ret", !.paths = SelectPaths(m)]
    /\ UNCHANGED <<ivars, fvars, mvars, pg>>

\* most levels of a profile in a call of the adjusted-pair test
MaxLevels == 2

\* _has_adjusted_pair: an element of a numpy row is never None, so the
\* test is on the flag alone, over the indexes both rows have
HasAdjustedPair(v_adj_row, v_adj_qc_row) ==
    \E i \in 1..Min(Len(v_adj_row), Len(v_adj_qc_row)) :
        v_adj_row[i] # None /\ Good(v_adj_qc_row[i])

\* rows of at most max elements; a variable the file lacks is the empty row
RowsOver(vals, max) == UNION { [1..n -> vals] : n \in 0..max }

AdjCalls(max) ==
    { [fn |-> "has_adjusted_core", pc |-> "call", nCore |-> n,
       tempAdj |-> ta, tempAdjQ |-> taq, psalAdj |-> sa, psalAdjQ |-> saq,
       has |-> FALSE, levels |-> << >>] :
        n \in 0..max,
        ta \in RowsOver({Num(11), Num(99999)}, max),
        taq \in RowsOver({Flag("1"), Flag(" ")}, max),
        sa \in RowsOver({Num(35)}, max),
        saq \in RowsOver({Flag("2")}, max) }

\* has_adj_core of one profile, and per core level the cleaned adjusted
\* values, their flags and the best values (the variables declare the fill
\* value 99999 and no valid range; the raw temperature is 10 and the raw
\* salinity 34, both flagged '1')
HasAdjustedCall ==
    /\ lab.pc = "call" /\ lab.fn = "has_adjusted_core"
    /\ lab' = [lab EXCEPT !.pc = "ret",
         !.has = HasAdjustedPair(lab.tempAdj, lab.tempAdjQ)
                 \/ HasAdjustedPair(lab.psalAdj, lab.psalAdjQ),
         !.levels = [i \in 1..lab.nCore |->
            LET TA == CleanVal(At(lab.tempAdj, i), Num(99999), None, None, "temp")
                TAQ == IF i <= Len(lab.tempAdjQ) THEN lab.tempAdjQ[i] ELSE QNone
                SA == CleanVal(At(lab.psalAdj, i), Num(99999), None, None, "psal")
                SAQ == IF i <= Len(lab.psalAdjQ) THEN lab.psalAdjQ[i] ELSE QNone
            IN  [TA |-> TA, TAQ |-> TAQ, SA |-> SA, SAQ |-> SAQ,
                 best_temp |-> BestValue(TA, TAQ, Num(10), Flag("1")),
                 best_psal |-> BestValue(SA, SAQ, Num(34), Flag("1"))]]]
    /\ UNCHANGED <<ivars, fvars, mvars, pg>>

-----------------------------------------------------------------------------
(* Two loader processes on one database: walk_and_ingest run twice at the
   same time, each on its own connection.  The server runs the statements
   of the two sessions one at a time, at READ COMMITTED: a statement sees
   what is committed when it starts and what its own transaction wrote; a
   row a transaction wrote stays locked until the transaction ends, and a
   statement that needs a row the other session has locked waits. *)

\* most files one process finds under its ROOT/dac
MaxJobs == 2

\* a one-profile core file
PgFile(name, prefix, wmo, ctok, title, t, core) ==
    [name |-> name, nseg |-> 4, dac |-> "aoml", prefix |-> prefix,
     wmoLen |-> 7, wmo |-> wmo, ctok |-> ctok, sprofInPath |-> FALSE,
     ga |-> {<<"title", title>>}, attrs |-> Attrs(Num(99999), None),
     profs |-> << [t |-> t, core |-> core, bgc |-> NoBgc] >>]

\* The files the two processes can meet, each with the number of
\* statements ingest_file issues before it returns or raises: the
\* real-time and the delayed-mode file of one cycle of float 1900001, a
\* file of float 1900002, and for each float a file whose arrays cannot be
\* read, so that ingest_file raises after the floats and float_cycles
\* upserts.
PgJobs ==
    << [f |-> PgFile("R1900001_003.nc", <<"R">>, 1900001, <<"0", "0", "3">>,
                   "realtime", 5, <<51, 52>>),
        n |-> 6],
       [f |-> PgFile("D1900001_003.nc", <<"D">>, 1900001, <<"0", "0", "3">>,
                   "delayed", 4, <<61>>),
        n |-> 6],
       [f |-> PgFile("R1900001_004.nc", <<"R">>, 1900001, <<"0", "0", "4">>,
                   "realtime", 6, <<71>>),
        n |-> 2],
       [f |-> PgFile("R1900002_001.nc", <<"R">>, 1900002, <<"0", "0", "1">>,
                   "realtime", 3, <<81>>),
        n |-> 6],
       [f |-> PgFile("R1900002_002.nc", <<"R">>, 1900002, <<"0", "0", "2">>,
                   "realtime", 2, <<91>>),
        n |-> 2] >>

\* the files of one process in the order os.walk yields them: jobs, each
\* at most once
WorkLists ==
    UNION { { w \in [1..k -> 1..Len(PgJobs)] :
                \A i, j \in 1..k : w[i] = w[j] => i = j } : k \in 1..MaxJobs }

\* a work list as a number, to list the two processes in a fixed order
RECURSIVE Code(_)
Code(w) == IF w = << >> THEN 0 ELSE 8 * Code(SubSeq(w, 1, Len(w) - 1)) + w[Len(w)]

\* nothing written, no row locked
NoKeys == [floats |-> {}, cycles |-> {}, profiles |-> {}, core |-> {}, bgc |-> {}]

\* a session: the files to go, the position in them, the statements of the
\* current call already executed, the state of the connection's
\* transaction, the rows it wrote and the keys it holds locked, and how
\* each call ended
PgSession(work) ==
    [work |-> work, at |-> 1, n |-> 0, st |-> "idle", own |-> EmptyStore,
     touched |-> NoKeys, res |-> << >>]

PgStart(w1, w2) ==
    [pc |-> "run", db |-> EmptyStore, seqC |-> 0, seqP |-> 0,
     ses |-> <<PgSession(w1), PgSession(w2)>>]

\* the conflict keys of the rows of a store
Keys(st) ==
    [floats |-> { <<r.wmo>> : r \in st.floats },
     cycles |-> { <<r.wmo, r.cycle_number>> : r \in st.cycles },
     profiles |-> { <<r.cycle_id, r.modality, r.profile_index>> : r \in st.profiles },
     core |-> { <<r.profile_id, r.level_index>> : r \in st.core },
     bgc |-> { <<r.profile_id, r.level_index>> : r \in st.bgc }]

\* the rows of store st whose key is not in ks
Without(st, ks) ==
    [floats |-> { r \in st.floats : <<r.wmo>> \notin ks.floats },
     cycles |-> { r \in st.cycles : <<r.wmo, r.cycle_number>> \notin ks.cycles },
     profiles |-> { r \in st.profiles :
                      <<r.cycle_id, r.modality, r.profile_index>> \notin ks.profiles },
     core |-> { r \in st.core : <<r.profile_id, r.level_index>> \notin ks.core },
     bgc |-> { r \in st.bgc : <<r.profile_id, r.level_index>> \notin ks.bgc }]

Both(a, b) ==
    [floats |-> a.floats \cup b.floats, cycles |-> a.cycles \cup b.cycles,
     profiles |-> a.profiles \cup b.profiles, core |-> a.core \cup b.core,
     bgc |-> a.bgc \cup b.bgc]

Minus(a, b) ==
    [floats |-> a.floats \ b.floats, cycles |-> a.cycles \ b.cycles,
     profiles |-> a.profiles \ b.profiles, core |-> a.core \ b.core,
     bgc |-> a.bgc \ b.bgc]

\* two key sets have a key in common
Meet(a, b) ==
    \/ a.floats \cap b.floats # {} \/ a.cycles \cap b.cycles # {}
    \/ a.profiles \cap b.profiles # {} \/ a.core \cap b.core # {}
    \/ a.bgc \cap b.bgc # {}

\* what a statement of session ss sees: the committed rows it has not
\* written, and its own versions of those it has
View(ss) == Both(Without(pg.db, ss.touched), ss.own)

\* the writer tag of the current call of session s
PgTag(s) == 10 * s + pg.ses[s].at

\* statement n of ingest_file(f) on what the session sees; the id of an
\* inserted float_cycles or profiles row is the next value of the table's
\* sequence, which the sessions share
PgExec(v, f, n, tag) ==
    LET raw == ExecStmt(v, f, n, 0, tag)
    IN  IF n = 2
        THEN [raw EXCEPT !.cycles =
                { IF <<r.wmo, r.cycle_number>> \in Keys(v).cycles
                  THEN r ELSE [r EXCEPT !.id = pg.seqC + 1] : r \in @ }]
        ELSE IF n > 2 /\ (n - 3) % 4 = 0
        THEN [raw EXCEPT !.profiles =
                { IF <<r.cycle_id, r.modality, r.profile_index>> \in Keys(v).profiles
                  THEN r ELSE [r EXCEPT !.id = pg.seqP + 1] : r \in @ }]
        ELSE raw

\* the keys of the rows a statement inserted, updated or deleted
Changed(v, w) == Keys(Both(Minus(v, w), Minus(w, v)))

\* session s has a statement to execute
HasStmt(s) ==
    LET ss == pg.ses[s]
    IN  /\ pg.pc = "run"
        /\ ss.st \in {"idle", "open"}
        /\ ss.at <= Len(ss.work)
        /\ ss.n < PgJobs[ss.work[ss.at]].n

\* the store session s sees after its next statement
AfterStmt(s) ==
    LET ss == pg.ses[s]
    IN  PgExec(View(ss), PgJobs[ss.work[ss.at]].f, ss.n + 1, PgTag(s))

\* the next statement of session s needs a row the other session wrote
\* and has not committed: it waits
Waits(s) ==
    /\ HasStmt(s)
    /\ pg.ses[3 - s].touched # NoKeys
    /\ Meet(Changed(View(pg.ses[s]), AfterStmt(s)), pg.ses[3 - s].touched)

\* the call of session s ends: the next file, no statement executed yet
NextCall(ss, outcome) ==
    [ss EXCEPT !.at = @ + 1, !.n = 0, !.res = Append(@, outcome)]

\* the transaction of session s ends: nothing pending, no row locked
Ended(ss, st) == [ss EXCEPT !.st = st, !.own = EmptyStore, !.touched = NoKeys]

PgUnchanged == UNCHANGED <<ivars, fvars, mvars, lab>>

\* cur.execute: the next statement of the current ingest_file call runs
PgStmt(s) ==
    /\ HasStmt(s) /\ ~ Waits(s)
    /\ LET ss == pg.ses[s]
           w == AfterStmt(s)
           locked == Both(ss.touched, Changed(View(ss), w))
           k == ss.n + 1
       IN  pg' = [pg EXCEPT
                    !.seqC = IF k = 2 THEN @ + 1 ELSE @,
                    !.seqP = IF k > 2 /\ (k - 3) % 4 = 0 THEN @ + 1 ELSE @,
                    !.ses[s] = [ss EXCEPT !.n = k, !.st = "open",
                                  !.touched = locked,
                                  !.own = Minus(w, Without(w, locked))]]
    /\ PgUnchanged

\* conn.commit() at the end of ingest_file: what the transaction wrote,
\* in this call and in earlier calls that raised, becomes visible
PgCommit(s) ==
    /\ pg.pc = "run"
    /\ LET ss == pg.ses[s]
       IN  /\ ss.st \in {"idle", "open"} /\ ss.at <= Len(ss.work)
           /\ ss.n = PgJobs[ss.work[ss.at]].n
           /\ ss.n = NStmts(PgJobs[ss.work[ss.at]].f)
           /\ pg' = [pg EXCEPT !.db = View(ss),
                       !.ses[s] = NextCall(Ended(ss, "idle"), "ok")]
    /\ PgUnchanged

\* ingest_file raises outside the database: no commit and no rollback,
\* the statements executed stay pending and their rows locked; the driver
\* logs the error and goes on with the next file
PgRaise(s) ==
    /\ pg.pc = "run"
    /\ LET ss == pg.ses[s]
       IN  /\ ss.st \in {"idle", "open"} /\ ss.at <= Len(ss.work)
           /\ ss.n = PgJobs[ss.work[ss.at]].n
           /\ ss.n < NStmts(PgJobs[ss.work[ss.at]].f)
           /\ pg' = [pg EXCEPT !.ses[s] = NextCall(ss, "raised")]
    /\ PgUnchanged

\* each session waits for a row the other has locked: the server detects
\* the deadlock and fails the statement of one of them, whose transaction
\* is aborted and its locks released; ingest_file raises DeadlockDetected.
\* Nothing rolls back, so the first cur.execute of every later call of
\* that process raises InFailedSqlTransaction.
PgDeadlock(s) ==
    /\ Waits(s) /\ Waits(3 - s)
    /\ LET ss == Ended(pg.ses[s], "aborted")
       IN  pg' = [pg EXCEPT !.ses[s] =
                    [ss EXCEPT !.at = Len(ss.work) + 1, !.n = 0,
                       !.res = @ \o <<"deadlock">>
                               \o [i \in 1..(Len(ss.work) - ss.at) |-> "aborted"]]]
    /\ PgUnchanged

\* the walk is over: leaving the with block commits what is pending, or
\* ends a failed transaction
PgClose(s) ==
    /\ pg.pc = "run"
    /\ LET ss == pg.ses[s]
       IN  /\ ss.st # "closed" /\ ss.at > Len(ss.work)
           /\ pg' = [pg EXCEPT
                       !.db = IF ss.st = "open" THEN View(ss) ELSE @,
                       !.ses[s] = Ended(ss, "closed")]
    /\ PgUnchanged

-----------------------------------------------------------------------------
(* Specifications *)

IngestStart ==
    /\ db = EmptyStore /\ tx = EmptyStore /\ txState = "closed"
    /\ txStart = 0 /\ conn = 0 /\ clock = 0 /\ todo = {} /\ calls = << >>
    /\ last = [file |-> "", ok |-> FALSE, snap |-> NoSnap, same |-> FALSE,
               before |-> NoSnap]

FetchIdle == fs = {} /\ dl = DlIdle /\ fetched = {}

MainIdle ==
    /\ mn = MainStart(<<"I">>, FALSE, 1, FALSE, << >>, << >>)
    /\ futs = << >>

PgIdle == [pc |-> "idle"]

OthersIdle == lab = LabIdle /\ pg = PgIdle

InitFetch ==
    /\ IngestStart /\ OthersIdle
    /\ fs \in SUBSET OldFiles
    /\ dl = DlIdle
    /\ fetched = {}
    /\ MainIdle

NextFetch ==
    \/ \E rel \in RelPaths : \E n \in ServerCounts : DlCallExists(rel, n)
    \/ \E rel \in RelPaths : \E n \in ServerCounts : DlCallFetch(rel, n)
    \/ \E n \in ServerCounts : DlCallIndex(n)
    \/ RequestOk
    \/ RequestFail
    \/ SaveOk
    \/ \E created \in BOOLEAN : SaveFail(created)

SpecFetch == InitFetch /\ [][NextFetch]_vars

InitIngest == IngestStart /\ FetchIdle /\ MainIdle /\ OthersIdle

NextIngest ==
    \/ Connect
    \/ \E f \in NcFiles : IngestParseFail(f)
    \/ \E f \in NcFiles : IngestOk(f)
    \/ \E f \in NcFiles : \E n \in 0..NStmts(f) : IngestPyFail(f, n)
    \/ \E f \in NcFiles : \E n \in 0..NStmts(f) : IngestDbFail(f, n)
    \/ \E f \in NcFiles : IngestAborted(f)
    \/ Close

SpecIngest == InitIngest /\ [][NextIngest]_vars

\* files present before the run: nothing, a cached core index, a profile
\* file of an earlier run
InitMain ==
    /\ IngestStart /\ OthersIdle
    /\ dl = DlIdle /\ fetched = {}
    /\ fs \in SUBSET { [path |-> IndexPath, content |-> NoErr, complete |-> TRUE],
                       [path |-> OutPath(PA), content |-> NoErr, complete |-> TRUE] }
    /\ \E oceanArg \in OceanArgs, bgc \in BOOLEAN, workers \in 0..MaxWorkers,
          forced \in BOOLEAN, coreIdx \in CoreIndexes, bgcIdx \in BgcIndexes :
          mn = MainStart(oceanArg, bgc, workers, forced, coreIdx, bgcIdx)
    /\ futs = << >>

NextMain ==
    \/ MainArgs
    \/ MainCoreIndex
    \/ MainIndexDownloadFails
    \/ MainBgcIndex
    \/ MainSelect
    \/ \E i \in 1..Len(futs) : TaskExists(i)
    \/ \E i \in 1..Len(futs) : TaskStart(i)
    \/ \E i \in 1..Len(futs) : TaskRaises(i)
    \/ \E i \in 1..Len(futs) : \E server \in Serving(NMirrors) : TaskOk(i, server)
    \/ \E i \in 1..Len(futs) : TaskFails(i)
    \/ \E i \in 1..Len(futs) : \E server \in Serving(NMirrors) :
          \E created \in BOOLEAN : TaskSaveFails(i, server, created)
    \/ \E i \in 1..Len(futs) : Collect(i)
    \/ MainDone

SpecMain == InitMain /\ [][NextMain]_vars

InitPure ==
    /\ IngestStart /\ FetchIdle /\ MainIdle /\ pg = PgIdle
    /\ \/ lab \in CleanCalls
       \/ lab \in LevelCalls
       \/ lab \in KeepCalls
       \/ lab \in SelectCalls(MaxKept)
       \/ lab \in AdjCalls(MaxLevels)

NextPure ==
    \/ CleanValCall
    \/ CoreLevelCall
    \/ KeepRowCall
    \/ SelectCall
    \/ HasAdjustedCall

SpecPure == InitPure /\ [][NextPure]_vars

InitPg ==
    /\ IngestStart /\ FetchIdle /\ MainIdle /\ lab = LabIdle
    /\ \E w1, w2 \in WorkLists : Code(w1) <= Code(w2) /\ pg = PgStart(w1, w2)

NextPg ==
    \/ \E s \in 1..2 : PgStmt(s)
    \/ \E s \in 1..2 : PgCommit(s)
    \/ \E s \in 1..2 : PgRaise(s)
    \/ \E s \in 1..2 : PgDeadlock(s)
    \/ \E s \in 1..2 : PgClose(s)

SpecPg == InitPg /\ [][NextPg]_vars

-----------------------------------------------------------------------------
(* The download stage with its scheduling: one fetch request by request, or
   the pool of main with each fetch as one step of its worker *)

\* one fetch into an empty destination, or a run of main for the Indian
\* Ocean over the mirror list
InitDownload ==
    \/ (InitFetch /\ fs = {})
    \/ (InitMain /\ mn.oceanArg = <<"I">> /\ mn.nservers = NMirrors
          /\ mn.coreIdx # << >>)

NextDownload ==
    \/ (MainIdle /\ NextFetch)
    \/ (dl = DlIdle /\ NextMain)

\* a request returns or times out, and the write that follows returns or
\* raises
FetchStep ==
    RequestOk \/ RequestFail \/ SaveOk \/ \E created \in BOOLEAN : SaveFail(created)

\* a worker of the pool that can take or end a task does so
PoolStep ==
    \E i \in 1..Len(futs) :
        \/ TaskExists(i) \/ TaskStart(i) \/ TaskRaises(i) \/ TaskFails(i)
        \/ \E server \in Serving(NMirrors) :
              \/ TaskOk(i, server)
              \/ \E created \in BOOLEAN : TaskSaveFails(i, server, created)

\* the main thread takes the next finished future from as_completed, and
\* leaves the with block when there is none left
TallyStep == MainDone \/ \E i \in 1..Len(futs) : Collect(i)

SpecDownloadFair ==
    /\ InitDownload /\ [][NextDownload]_vars
    /\ WF_vars(FetchStep) /\ WF_vars(PoolStep) /\ WF_vars(TallyStep)

-----------------------------------------------------------------------------
(* Claims about the normalization stage *)

AllRows(s) == s.floats \cup s.cycles \cup s.profiles \cup s.core \cup s.bgc

\* C1: the committed store never holds a Float, FloatCycle, Profile,
\* CoreLevel or BGCLevel row written by an ingest_file call that raised:
\* every committed row was last written by a call that ran to its commit.
C1_NoWriteOfFailedCallCommitted ==
    \A r \in AllRows(db) : r.by \in 1..Len(calls) /\ calls[r.by].ok

\* C2: once a failed database statement has aborted one file's ingestion,
\* every later file visited on the same connection whose own ingestion
\* meets no error is ingested and committed.
C2_SoundFilesAfterDbErrorIngested ==
    \A i, j \in 1..Len(calls) :
        (i < j /\ calls[i].conn = calls[j].conn
           /\ calls[i].plan = "db" /\ calls[j].plan = "ok") => calls[j].ok

\* C3: when the same file is ingested by two successive calls that both
\* succeed, the store after the second call equals the store after the
\* first, update timestamps aside (rows and level row sets alike).
C3_ReingestIdempotent ==
    (last.ok /\ last.same) => last.snap = last.before

\* C3 witness: a file with two profiles and their levels was ingested twice
\* in a row, both times successfully
C3_Witness ==
    /\ last.ok /\ last.same
    /\ last.snap.core # {}
    /\ Cardinality(last.snap.profiles) >= 2
    /\ last.snap = Proj(db)

\* the file of a call, by name
FileOf(name) == CHOOSE f \in NcFiles : f.name = name

\* the id of the profiles row of profile pidx (from 1) of file f in store
\* s, 0 when there is none
StoredProfileId(s, f, pidx) ==
    LET cyc == { c \in s.cycles : c.wmo = f.wmo /\ c.cycle_number = CycleNumber(f) }
        hit == { r \in s.profiles :
                   /\ \E c \in cyc : r.cycle_id = c.id
                   /\ r.modality = Modality(f)
                   /\ r.profile_index = pidx - 1 }
    IN  IF hit = {} THEN 0 ELSE (CHOOSE r \in hit : TRUE).id

\* each key is carried by at most one row, and so is each id
UniqueKeys(s) ==
    /\ \A a, b \in s.floats : a.wmo = b.wmo => a = b
    /\ \A a, b \in s.cycles :
          (a.wmo = b.wmo /\ a.cycle_number = b.cycle_number) \/ a.id = b.id
              => a = b
    /\ \A a, b \in s.profiles :
          (a.cycle_id = b.cycle_id /\ a.modality = b.modality
              /\ a.profile_index = b.profile_index) \/ a.id = b.id
              => a = b
    /\ \A a, b \in s.core :
          (a.profile_id = b.profile_id /\ a.level_index = b.level_index) => a = b
    /\ \A a, b \in s.bgc :
          (a.profile_id = b.profile_id /\ a.level_index = b.level_index) => a = b

\* a key of s that t carries too has the same id in t
SameIdentity(s, t) ==
    /\ \A a \in s.floats : \E b \in t.floats : b.wmo = a.wmo
    /\ \A a \in s.cycles : \A b \in t.cycles :
          (a.wmo = b.wmo /\ a.cycle_number = b.cycle_number) => a.id = b.id
    /\ \A a \in s.profiles : \A b \in t.profiles :
          (a.cycle_id = b.cycle_id /\ a.modality = b.modality
              /\ a.profile_index = b.profile_index) => a.id = b.id

\* C11: in every committed store there is at most one floats row per wmo,
\* one float_cycles row per (wmo, cycle_number), one profiles row per
\* (cycle_id, modality, profile_index) and one level row per (profile_id,
\* level_index) in each level table; and a key that is met again keeps the
\* row and the id it had.
C11_UniqueKeysReused ==
    /\ [](UniqueKeys(db) /\ UniqueKeys(tx))
    /\ [][SameIdentity(db, db')]_vars

\* C11 witness: the delayed-mode file of a cycle was ingested after the
\* real-time file: float, cycle and first profile were met again, and the
\* store holds one float, one cycle and the two profiles
C11_Witness ==
    /\ Len(calls) = 2 /\ calls[1].ok /\ calls[2].ok
    /\ calls[1].file = "R1900001_001.nc" /\ calls[2].file = "D1900001_001.nc"
    /\ Cardinality(db.floats) = 1 /\ Cardinality(db.cycles) = 1
    /\ Cardinality(db.profiles) = 2
    /\ \E r \in db.profiles : r.by = 2

\* C12: after a successful ingestion the stored levels_core rows of each
\* profile of the file are exactly the rows of that profile in the file,
\* one per level index: no row of an earlier ingestion is left.
C12_CoreLevelsReplaced ==
    last.ok =>
        LET f == FileOf(last.file)
        IN  \A pidx \in 1..Len(f.profs) :
              LET pid == StoredProfileId(last.snap, f, pidx)
              IN  /\ pid # 0
                  /\ { r \in last.snap.core : r.profile_id = pid }
                       = { [profile_id |-> pid, level_index |-> i - 1,
                            val |-> f.profs[pidx].core[i]] :
                             i \in 1..Len(f.profs[pidx].core) }

\* C12 witness: SD... was ingested after SR... of the same cycle; its first
\* profile has no level where SR... had one, and no levels_core row of the
\* first profile is left
C12_Witness ==
    /\ Len(calls) = 2 /\ calls[1].ok /\ calls[2].ok
    /\ calls[1].file = "SR1900001_002.nc" /\ calls[2].file = "SD1900001_002.nc"
    /\ last.ok /\ last.file = "SD1900001_002.nc"
    /\ \E r \in last.before.core : r.val = 31
    /\ \A r \in db.core : r.val = 41

\* no oxygen or chlorophyll value of the profile, raw or adjusted, survives
\* the cleaning of the level loop
NoBgcValue(f, pr) ==
    \A i \in 1..Max(Max(Len(pr.bgc.doxy), Len(pr.bgc.doxyAdj)),
                    Max(Len(pr.bgc.chla), Len(pr.bgc.chlaAdj))) :
        LET lv == BgcLevel(f, pr, i)
        IN  lv.doxy = None /\ lv.doxy_adjusted = None /\ lv.chla = None
            /\ lv.chla_adjusted = None

\* C13: when no oxygen or chlorophyll value of a profile survives cleaning,
\* a successful ingestion of the file leaves no levels_bgc row for the
\* profile's id, whatever rows an earlier ingestion stored for it.
C13_BgcSkipGuard ==
    last.ok =>
        LET f == FileOf(last.file)
        IN  \A pidx \in 1..Len(f.profs) :
              NoBgcValue(f, f.profs[pidx]) =>
                  ~ \E r \in last.snap.bgc :
                       r.profile_id = StoredProfileId(last.snap, f, pidx)

\* C13 witness: SR... stored levels_bgc rows for both profiles of the cycle;
\* SD..., whose oxygen and chlorophyll rows hold no valid value, was
\* ingested next without error and no levels_bgc row is left
C13_Witness ==
    /\ Len(calls) = 2 /\ calls[1].ok /\ calls[2].ok
    /\ calls[2].file = "SD1900001_002.nc"
    /\ Cardinality({ r.profile_id : r \in last.before.bgc }) = 2
    /\ last.snap.bgc = {} /\ db.bgc = {}

\* the times of the profiles of a file
Times(f) == { f.profs[i].t : i \in 1..Len(f.profs) } \ {NULL}

MinOf(S) == CHOOSE x \in S : \A y \in S : x <= y

\* first_profile_time / last_profile_time never move inwards from s to t
Widened(s, t) ==
    \A a \in s.floats : \A b \in t.floats :
        a.wmo = b.wmo =>
            /\ a.first # NULL => (b.first # NULL /\ b.first <= a.first)
            /\ a.last # NULL => (b.last # NULL /\ b.last >= a.last)

\* C14: the committed first_profile_time of a float never increases and its
\* last_profile_time never decreases; and an ingestion that succeeds leaves
\* first at the minimum, and last at the maximum, of the value it found and
\* the times of the file's profiles (the value found when no profile has a
\* time, the times alone when no value was found).
C14_FloatTimesWidened ==
    /\ [][Widened(db, db')]_vars
    /\ [][(Len(calls') > Len(calls) /\ last'.ok) =>
            LET f == FileOf(last'.file)
                old == { r \in tx.floats : r.wmo = f.wmo }
                firsts == (Times(f) \cup { r.first : r \in old }) \ {NULL}
                lasts == (Times(f) \cup { r.last : r \in old }) \ {NULL}
            IN  \A r \in db'.floats :
                  r.wmo = f.wmo =>
                    /\ r.first = IF firsts = {} THEN NULL ELSE MinOf(firsts)
                    /\ r.last = IF lasts = {} THEN NULL ELSE MaxOf(lasts)]_vars

\* C14 witness: after R... (times 5 and 3) and SR... (no time, time 6) the
\* float's times are 3 and 6
C14_Witness ==
    /\ Len(calls) = 2 /\ calls[1].ok /\ calls[2].ok
    /\ calls[1].file = "R1900001_001.nc" /\ calls[2].file = "SR1900001_002.nc"
    /\ \E r \in db.floats : r.first = 3 /\ r.last = 6

-----------------------------------------------------------------------------
(* Claims about the mirror fetcher *)

\* requests of the current fetch sent to mirror m
ReqsTo(m) == { i \in 1..Len(dl.log) : dl.log[i].mirror = m }

AllFailed == \A i \in 1..Len(dl.log) : ~ dl.log[i].ok

\* C4: requests go to the mirrors in list order; a request to mirror j+1 is
\* sent only after exactly max_tries requests to mirror j, all failed; and
\* a successful request is the last request of the fetch.
C4_MirrorsInOrder ==
    \A i \in 1..Len(dl.log) :
        /\ dl.log[i].mirror \in 1..dl.n
        /\ \A h \in 1..(i - 1) : dl.log[h].mirror <= dl.log[i].mirror
        /\ dl.log[i].mirror > 1 =>
              LET prev == { h \in 1..(i - 1) :
                              dl.log[h].mirror = dl.log[i].mirror - 1 }
              IN  /\ Cardinality(prev) = dl.mt
                  /\ \A h \in prev : ~ dl.log[h].ok
        /\ dl.log[i].ok => i = Len(dl.log)

\* C4 witness: with five mirrors, a request to the third mirror succeeded
\* after the first two were exhausted
C4_Witness ==
    /\ dl.n = NMirrors /\ Len(dl.log) > 0
    /\ dl.log[Len(dl.log)].ok /\ dl.log[Len(dl.log)].mirror = 3

\* C5: when a request to mirror j succeeds after all requests to the
\* mirrors before it failed, try_download_from_servers returns mirror j and
\* the payload of that very request, each earlier mirror got exactly
\* max_tries requests, and download_file_from_any reports mirror j and
\* saves that payload.
C5_FallbackResult ==
    (dl.pc \in {"save", "done"} /\ Len(dl.log) > 0 /\ dl.log[Len(dl.log)].ok) =>
        LET okReq == dl.log[Len(dl.log)]
        IN  /\ dl.base = okReq.mirror
            /\ dl.blob = [mirror |-> okReq.mirror, try |-> okReq.try]
            /\ \A m \in 1..(okReq.mirror - 1) : Cardinality(ReqsTo(m)) = dl.mt
            /\ (dl.pc = "done" /\ dl.kind = "file" /\ dl.result.success) =>
                  /\ dl.result.server = okReq.mirror
                  /\ [path |-> OutPath(dl.rel), content |-> dl.blob,
                      complete |-> TRUE] \in fs

\* C5 witness: mirror 1 failed all its tries, mirror 2 answered on its
\* first try, and the file was saved
C5_Witness ==
    /\ dl.pc = "done" /\ dl.kind = "file" /\ dl.result.success
    /\ dl.result.server = 2
    /\ Len(dl.log) = dl.mt + 1

\* C6: when every request to every mirror fails, the fetch ends after
\* exactly len(mirrors) * max_tries requests with no payload and with the
\* error of the last request to the last mirror; download_file_from_any
\* returns (rel_path, False, that error, None) and no file is written.
C6_AllMirrorsFail ==
    (dl.pc = "done" /\ Len(dl.log) > 0 /\ AllFailed) =>
        /\ Len(dl.log) = dl.n * dl.mt
        /\ dl.blob = NoErr
        /\ dl.lastErr = [mirror |-> dl.n, try |-> dl.mt]
        /\ fs = dl.fs0
        /\ dl.kind = "file" =>
              dl.result = [path |-> dl.rel, success |-> FALSE, msg |-> "error",
                           err |-> [mirror |-> dl.n, try |-> dl.mt],
                           server |-> 0]
        /\ dl.kind = "index" => dl.raised = [mirror |-> dl.n, try |-> dl.mt]

\* C6 witness: a file fetch over the five mirrors ended with all ten
\* requests failed
C6_Witness ==
    /\ dl.pc = "done" /\ dl.kind = "file" /\ dl.n = NMirrors
    /\ Len(dl.log) = NMirrors * RetriesEach /\ AllFailed

\* C7: when the destination path exists at the call, download_file_from_any
\* sends no request, leaves the files as they are and reports success; and
\* a fetch of a path that an earlier fetch reported success for sends no
\* request.
C7_SkipIfExists ==
    (dl.kind = "file" /\ dl.ncalls > 0) =>
        /\ Exists(dl.fs0, OutPath(dl.rel)) =>
              /\ dl.log = << >>
              /\ fs = dl.fs0
              /\ dl.pc = "done"
              /\ dl.result = [path |-> dl.rel, success |-> TRUE,
                              msg |-> "exists", err |-> NoErr, server |-> 0]
        /\ dl.hadOk => dl.log = << >>

\* C7 witness: a rerun of a path that an earlier call downloaded and saved
C7_Witness ==
    /\ dl.kind = "file" /\ dl.hadOk /\ dl.pc = "done"
    /\ \E x \in fs : x.path = OutPath(dl.rel) /\ x.content # NoErr /\ x.complete

-----------------------------------------------------------------------------
(* Claims about the acquisition run *)

Collected == { i \in 1..Len(futs) : futs[i].st = "collected" }

Lines(tag) == { i \in 1..Len(mn.out) : mn.out[i].tag = tag }

Terminal == mn.pc \in {"exit", "crashed", "returned", "done"}

LastLine == mn.out[Len(mn.out)]

\* C8: in the download stage there is one future per selected path; each
\* collected future was counted exactly once, as OK when it returned
\* success and as FAIL otherwise (a raised exception included), with one
\* numbered output line each; and at the final tally every future has been
\* collected, so OK + FAIL equals the number of selected paths.
C8_EveryPathTalliedOnce ==
    mn.pc \in {"download", "done"} =>
        /\ Len(futs) = Len(mn.relPaths)
        /\ \A i \in 1..Len(futs) : futs[i].rel = mn.relPaths[i]
        /\ mn.ok = Cardinality({ i \in Collected :
                                   ~ futs[i].raised /\ futs[i].res.success })
        /\ mn.fail = Cardinality({ i \in Collected :
                                     futs[i].raised \/ ~ futs[i].res.success })
        /\ { mn.out[i].a : i \in Lines("OK") } = 1..mn.ok
        /\ { mn.out[i].a : i \in Lines("FAIL") } = 1..mn.fail
        /\ Cardinality(Lines("OK")) = mn.ok
        /\ Cardinality(Lines("FAIL")) = mn.fail
        /\ mn.pc = "done" =>
              /\ Collected = 1..Len(futs)
              /\ mn.ok + mn.fail = Len(mn.relPaths)
              /\ LastLine = [tag |-> "DONE", a |-> mn.ok, b |-> mn.fail,
                             path |-> ""]

\* C8 witness: a finished run in which one file was fetched, one failed
\* and one worker raised
C8_Witness ==
    /\ mn.pc = "done"
    /\ mn.ok >= 1 /\ mn.fail >= 2
    /\ \E i \in 1..Len(futs) : futs[i].raised
    /\ \E i \in 1..Len(futs) : ~ futs[i].raised /\ futs[i].res.msg = "error"

C9_EmptyReached ==
    mn.pc = "returned" /\ mn.coreHeader # << >> /\ LastLine.tag = "EMPTY"

\* C10 (as claimed): a run whose core index parsed to the empty index and
\* that did not die of an index download ends normally with zero files
\* selected.
C10_EmptyCoreIndexEndsNormally ==
    (Terminal /\ mn.pc # "crashed" /\ mn.coreParsed
       /\ mn.coreRows = << >> /\ mn.coreHeader = << >>) =>
        (mn.pc = "returned" /\ mn.exit = 0)

\* C10 (amended): when the core index parses to the empty index, no ocean
\* column resolves: nothing is selected or fetched, and the run ends with
\* the missing-ocean-column error and exit code 3 (unless the BGC index
\* download fails first).
C10_EmptyCoreIndexExits3 ==
    (mn.coreParsed /\ mn.coreHeader = << >>) =>
        /\ mn.coreRows = << >>
        /\ mn.relPaths = << >> /\ futs = << >>
        /\ mn.pc \in {"bgc_index", "select", "exit", "crashed"}
        /\ mn.pc = "exit" =>
              /\ mn.exit = 3
              /\ LastLine = [tag |-> "ERROR", a |-> 3, b |-> 0, path |-> ""]

\* C10 witness: the core index held comments only and the run exited 3
C10_Witness ==
    /\ mn.coreParsed /\ mn.coreHeader = << >>
    /\ mn.pc = "exit" /\ mn.exit = 3

-----------------------------------------------------------------------------
(* Claims about the value cleaner *)

\* C15: for each core level and each of temperature and salinity, best is
\* the cleaned adjusted value when that is non-null and the adjusted QC flag
\* is '1' or '2'; otherwise the cleaned raw value when that is non-null and
\* the raw QC flag is '1' or '2'; otherwise null.  Every other flag, blank,
\* masked and missing included, counts as not good.
C15_BestValueRule ==
    (lab.fn = "core_level" /\ lab.pc = "ret") =>
        LET goodFlags == { Flag("1"), Flag("2") }
        IN  lab.best =
              IF lab.VA # None /\ lab.adjq \in goodFlags THEN lab.VA
              ELSE IF lab.V # None /\ lab.rawq \in goodFlags THEN lab.V
              ELSE None

\* C15 witness: raw 10 flagged '1', adjusted 11 flagged '3': best is the raw
\* value
C15_Witness ==
    /\ lab.fn = "core_level" /\ lab.pc = "ret"
    /\ lab.raw = Num(10) /\ lab.rawq = Flag("1")
    /\ lab.adj = Num(11) /\ lab.adjq = Flag("3")
    /\ lab.best = Num(10)

\* C16: _clean_val returns null or its input unchanged; a non-null result
\* is finite, differs from the declared fill value, is below the sentinel
\* threshold in magnitude, is none of the fixed placeholders, and lies
\* within the declared valid range and the physical range of its variable.
\* So 99999 as a pressure, 9.96921e36 as anything, and 999 or 9999 as a
\* pressure clean to null, and 15 as a temperature cleans to 15.
C16_CleanValNullOrUnchanged ==
    (lab.fn = "_clean_val" /\ lab.pc = "ret") =>
        /\ lab.out = None \/ lab.out = lab.x
        /\ lab.out # None =>
              /\ lab.out.k = "num"
              /\ lab.fill.k = "num" => lab.out # lab.fill
              /\ LtMag(lab.out, SENTINEL_ABS_THRESHOLD)
              /\ lab.out \notin SENTINEL_VALUES
              /\ lab.vmin.k = "num" => ~ Lt(lab.out, lab.vmin)
              /\ lab.vmax.k = "num" => ~ Lt(lab.vmax, lab.out)
              /\ lab.phys \in PhysKeys =>
                    /\ ~ Lt(lab.out, PHYS_RANGES[lab.phys][1])
                    /\ ~ Lt(PHYS_RANGES[lab.phys][2], lab.out)
        /\ (lab.x \in {Num(99999), Num(999), Num(9999)} /\ lab.phys = "pres")
              => lab.out = None
        /\ lab.x = Sci(996921, 31) => lab.out = None
        /\ (lab.x = Num(15) /\ lab.phys = "temp" /\ lab.fill = Num(99999)
              /\ lab.vmin = None /\ lab.vmax = None) => lab.out = Num(15)

\* C16 witness: 40 as a salinity, with a fill value and a valid range
\* declared, is returned unchanged
C16_Witness ==
    /\ lab.fn = "_clean_val" /\ lab.pc = "ret"
    /\ lab.x = Num(40) /\ lab.phys = "psal"
    /\ lab.fill = Num(99999) /\ lab.vmin = Num(2) /\ lab.vmax = Num(40)
    /\ lab.out = Num(40)

-----------------------------------------------------------------------------
(* Claims about the selection of paths *)

\* the instant <<yyyymmdd, hhmmss>> each full timestamp explored denotes
Instant ==
    [t \in { "20231231235959", "20240101000000", "2024-01-01T00:00:00Z",
             "20240101000001", "20240115120000", "20240131235959",
             "2024-01-31T23:59:59Z", "20240201000000", "2024-02-01T00:00:00Z",
             "20240201000001", "20250115120000", "20230115120000",
             "2024-01-15T12:00:00.5Z" } |->
        CASE t = "20231231235959" -> <<20231231, 235959>>
          [] t \in {"20240101000000", "2024-01-01T00:00:00Z"} -> <<20240101, 0>>
          [] t = "20240101000001" -> <<20240101, 1>>
          [] t \in {"20240115120000", "2024-01-15T12:00:00.5Z"} -> <<20240115, 120000>>
          [] t \in {"20240131235959", "2024-01-31T23:59:59Z"} -> <<20240131, 235959>>
          [] t \in {"20240201000000", "2024-02-01T00:00:00Z"} -> <<20240201, 0>>
          [] t = "20240201000001" -> <<20240201, 1>>
          [] t = "20250115120000" -> <<20250115, 120000>>
          [] t = "20230115120000" -> <<20230115, 120000>>]

\* a <= b for instants
NotAfter(a, b) == a[1] < b[1] \/ (a[1] = b[1] /\ a[2] <= b[2])

\* the row's ocean value, trimmed and upper-cased, is the requested letter
OceanMatches(oc, letter) ==
    <<oc, letter>> \in { <<"I", "I">>, <<"i", "I">>, <<"A", "A">> }

\* C17: for an index with a date column, a row whose ocean value matches,
\* whose file path is not empty and whose date is the instant D is
\* selected exactly when S <= D < E, S and E being midnight of the start
\* and of the end date: D = S is selected and D = E is not.  A row whose
\* date value does not parse is not selected.
C17_DateWindowHalfOpen ==
    (lab.fn = "keep_row" /\ lab.pc = "ret" /\ lab.hasDate
        /\ lab.file # "" /\ OceanMatches(lab.ocean, lab.letter)) =>
        LET S == <<WindowStart, 0>>
            E == <<WindowEnd, 0>>
        IN  /\ lab.date \in DOMAIN Instant =>
                  LET D == Instant[lab.date]
                  IN  /\ lab.selected = <<lab.file>>
                          <=> (NotAfter(S, D) /\ ~ NotAfter(E, D))
                      /\ D = S => lab.selected = <<lab.file>>
                      /\ D = E => lab.selected = << >>
            /\ lab.date \notin DOMAIN Instant => lab.selected = << >>
            /\ lab.selected \in { << >>, <<lab.file>> }

\* a matching row dated exactly at the end of the window was scanned and
\* not selected
C17_Witness ==
    /\ lab.fn = "keep_row" /\ lab.pc = "ret" /\ lab.hasDate
    /\ lab.file = "a.nc" /\ lab.ocean = "i" /\ lab.letter = "I"
    /\ lab.date = "2024-02-01T00:00:00Z"
    /\ ~ lab.kept /\ lab.selected = << >>

\* a matching row dated exactly at the start of the window was selected
C17_StartReached ==
    /\ lab.fn = "keep_row" /\ lab.pc = "ret" /\ lab.hasDate
    /\ lab.file = "a.nc" /\ lab.ocean = "I" /\ lab.letter = "I"
    /\ lab.date = "20240101000000"
    /\ lab.kept /\ lab.selected = <<"a.nc">>

\* the kept file values in scan order: those of the core index, then
\* those of the BGC index when it is scanned
KeptInOrder == lab.core \o (IF lab.bgcOn THEN lab.bgc ELSE << >>)

\* position of the first occurrence of f in the sequence q
FirstAt(q, f) == CHOOSE i \in 1..Len(q) : q[i] = f /\ \A j \in 1..(i - 1) : q[j] # f

\* C18: the selected path sequence holds each path once, in the order of
\* the first occurrences in the scan, the core index being scanned before
\* the BGC index, and holds no empty path; the kept rows a, b, a yield a, b.
C18_SelectedOnceInFirstOrder ==
    (lab.fn = "select" /\ lab.pc = "ret") =>
        LET q == KeptInOrder
            out == lab.paths
        IN  /\ \A i, j \in 1..Len(out) : out[i] = out[j] => i = j
            /\ \A i \in 1..Len(out) : out[i] # ""
            /\ { out[i] : i \in 1..Len(out) } = { q[i] : i \in 1..Len(q) } \ {""}
            /\ \A i, j \in 1..Len(out) :
                  i < j => FirstAt(q, out[i]) < FirstAt(q, out[j])
            /\ \A i, j \in 1..Len(out) :
                  (/\ \E k \in 1..Len(lab.core) : lab.core[k] = out[i]
                   /\ \A k \in 1..Len(lab.core) : lab.core[k] # out[j]) => i < j
            /\ (lab.core = <<"a.nc", "b.nc", "a.nc">> /\ ~ lab.bgcOn)
                  => out = <<"a.nc", "b.nc">>

\* a path listed by the BGC index before, and by the core index after,
\* another one was selected once, at its core position
C18_Witness ==
    /\ lab.fn = "select" /\ lab.pc = "ret"
    /\ lab.core = <<"a.nc", "b.nc", "a.nc">>
    /\ lab.bgcOn /\ lab.bgc = <<"c.nc", "", "b.nc">>
    /\ lab.paths = <<"a.nc", "b.nc", "c.nc">>

-----------------------------------------------------------------------------
(* Claims about the download workers *)

\* the destination path of task i
Dest(i) == OutPath(futs[i].rel)

\* the file at a path, if any
FileAt(files, path) == { x \in files : x.path = path }

\* C20: within one run the worker tasks have pairwise distinct destination
\* paths, and under every interleaving a destination changes only by the
\* write of the one task it belongs to, the path having been absent until
\* then: no task overwrites what another task wrote.
C20_DistinctDestinations ==
    /\ [](\A i, j \in 1..Len(futs) : Dest(i) = Dest(j) => i = j)
    /\ [][mn.pc = "download" =>
            \A p \in { x.path : x \in fs \cup fs' } :
                FileAt(fs, p) # FileAt(fs', p) =>
                    /\ FileAt(fs, p) = {}
                    /\ \E i \in 1..Len(futs) :
                          /\ Dest(i) = p
                          /\ futs[i].st = "running" /\ futs'[i].st = "finished"
                          /\ \A j \in 1..Len(futs) \ {i} :
                                Dest(j) # p /\ futs'[j] = futs[j]]_vars

\* two tasks ran at the same time: the second has written its file while
\* the first, started before it, is still fetching
C20_Witness ==
    /\ mn.pc = "download" /\ Len(futs) >= 2
    /\ futs[1].st = "running" /\ FileAt(fs, Dest(1)) = {}
    /\ futs[2].st = "finished" /\ ~ futs[2].raised /\ futs[2].res.msg = "ok"
    /\ \E x \in FileAt(fs, Dest(2)) : x.complete

-----------------------------------------------------------------------------
(* Claims about two loader processes at the same time *)

\* the rows of a store under their natural keys, without the serial ids
\* and the writer tags
Natural(s) ==
    LET cyc(id) == CHOOSE c \in s.cycles : c.id = id
        prof(id) == CHOOSE q \in s.profiles : q.id = id
        pkey(q) == <<cyc(q.cycle_id).wmo, cyc(q.cycle_id).cycle_number,
                     q.modality, q.profile_index>>
    IN  [floats |-> Proj(s).floats,
         cycles |-> { <<c.wmo, c.cycle_number>> : c \in s.cycles },
         profiles |-> { <<pkey(q), q.fields>> : q \in s.profiles },
         core |-> { <<pkey(prof(r.profile_id)), r.level_index, r.val>> : r \in s.core },
         bgc |-> { <<pkey(prof(r.profile_id)), r.level_index, r.lv>> : r \in s.bgc }]

\* the orders in which one process alone could run the calls of two work
\* lists, each list in its own order
RECURSIVE Merges(_, _)
Merges(a, b) ==
    IF a = << >> THEN {b}
    ELSE IF b = << >> THEN {a}
    ELSE { <<Head(a)>> \o m : m \in Merges(Tail(a), b) }
         \cup { <<Head(b)>> \o m : m \in Merges(a, Tail(b)) }

\* the store one process leaves after the calls of order m, from an empty
\* database
RECURSIVE SeqRun(_, _)
SeqRun(m, s) ==
    IF m = << >> THEN s
    ELSE SeqRun(Tail(m), RunStmts(s, PgJobs[Head(m)].f, PgJobs[Head(m)].n, 0, 0))

\* every level of a profile was written by the call that last wrote the
\* profile
OneWriterPerProfile(s) ==
    \A q \in s.profiles :
        \A r \in s.core \cup s.bgc : r.profile_id = q.id => r.by = q.by

\* no call failed for a reason other than its own file
NoCallFailedByTheOther ==
    \A s \in 1..2 : \A i \in 1..Len(pg.ses[s].res) :
        pg.ses[s].res[i] \notin {"deadlock", "aborted"}

PgDone == pg.pc = "run" /\ \A s \in 1..2 : pg.ses[s].st = "closed"

PgSafe ==
    /\ NoCallFailedByTheOther
    /\ UniqueKeys(pg.db)
    /\ OneWriterPerProfile(pg.db)
    /\ PgDone =>
          \E m \in Merges(pg.ses[1].work, pg.ses[2].work) :
              Natural(pg.db) = Natural(SeqRun(m, EmptyStore))

AllSound ==
    \A s \in 1..2 : \A i \in 1..Len(pg.ses[s].work) :
        PgJobs[pg.ses[s].work[i]].n = NStmts(PgJobs[pg.ses[s].work[i]].f)

\* C19 for files none of which makes ingest_file raise: every transaction
\* is one call, which locks its floats row first, and the claim holds
C19_SafeWhenNoCallRaises == (pg.pc = "run" /\ AllSound) => PgSafe

\* both processes ingested the two files of one cycle, in opposite
\* orders, and the store is the one of the later commit
C19_OverlapReached ==
    /\ PgDone /\ AllSound
    /\ pg.ses[1].work = <<1, 2>> /\ pg.ses[2].work = <<2, 1>>
    /\ \E r \in pg.db.core : r.val = 51

\* a process whose earlier call raised holds the row of one float and
\* waits for the other's: its call on a sound file fails by deadlock
C19_DeadlockReached ==
    /\ pg.pc = "run"
    /\ \E s \in 1..2 :
          /\ pg.ses[s].st = "aborted"
          /\ pg.ses[s].res = <<"raised", "deadlock">>
          /\ PgJobs[pg.ses[s].work[2]].n = NStmts(PgJobs[pg.ses[s].work[2]].f)

-----------------------------------------------------------------------------
(* Further claims about the normalization stage *)

\* the call this step logs, if it logs one
Logs(f) ==
    /\ Len(calls') = Len(calls) + 1
    /\ calls'[Len(calls')].file = f.name

\* C21: a call on a relative path of fewer than three segments, or whose
\* file name has no platform number of six digits, raises before any
\* statement: the committed store, the pending transaction and the state
\* of the connection are what they were, and the walk goes on from the
\* remaining files.
C21_RejectedPathTouchesNothing ==
    [][\A f \in NcFiles :
          (Logs(f) /\ (f.nseg < 3 \/ f.wmoLen < 6)) =>
              /\ ~ calls'[Len(calls')].ok
              /\ db' = db /\ tx' = tx
              /\ txState' = txState /\ txStart' = txStart /\ conn' = conn
              /\ todo' = todo \ {f}]_vars

\* a file was committed, and the next file of the same walk was rejected
\* for its path: the rows of the first are still committed
C21_Witness ==
    /\ Len(calls) = 2
    /\ calls[1].ok /\ calls[2].plan = "parse" /\ calls[2].conn = calls[1].conn
    /\ calls[2].file = "D1900001_009.nc"
    /\ txState = "idle"
    /\ \E r \in db.profiles : r.by = 1

\* a file was rejected for its name, and the next file of the same walk
\* was ingested and committed
C21_GoesOnReached ==
    /\ Len(calls) = 2
    /\ calls[1].plan = "parse" /\ calls[1].file = "R19001_001.nc"
    /\ calls[2].ok /\ calls[2].conn = calls[1].conn
    /\ \E r \in db.profiles : r.by = 2

\* some core level has a cleaned adjusted temperature or salinity whose
\* adjusted flag is '1' or '2'
SomeGoodAdjusted ==
    \E i \in 1..Len(lab.levels) :
        \/ /\ lab.levels[i].TA # None
           /\ StripChars(lab.levels[i].TAQ.cs) \in {<<"1">>, <<"2">>}
        \/ /\ lab.levels[i].SA # None
           /\ StripChars(lab.levels[i].SAQ.cs) \in {<<"1">>, <<"2">>}

\* C24: has_adjusted_core is true exactly when some core level of the
\* profile has a non-null cleaned adjusted temperature or salinity whose
\* adjusted flag is '1' or '2', that is, when some level takes a best
\* value from the adjusted one.
C24_HasAdjustedCoreIffGoodAdjusted ==
    (lab.fn = "has_adjusted_core" /\ lab.pc = "ret") =>
        /\ lab.has <=> SomeGoodAdjusted
        /\ lab.has <=>
              \E i \in 1..Len(lab.levels) :
                  \/ lab.levels[i].best_temp = Num(11)
                  \/ lab.levels[i].best_psal = Num(35)

\* C24, the half that holds: a level with a good cleaned adjusted value
\* sets the flag
C24_GoodAdjustedSetsFlag ==
    (lab.fn = "has_adjusted_core" /\ lab.pc = "ret" /\ SomeGoodAdjusted)
        => lab.has

\* the only adjusted temperature is the fill value, flagged '1': the flag
\* is set although no level has an adjusted value
C24_FillFlaggedGoodReached ==
    /\ lab.fn = "has_adjusted_core" /\ lab.pc = "ret"
    /\ lab.nCore = 1 /\ lab.tempAdj = <<Num(99999)>> /\ lab.tempAdjQ = <<Flag("1")>>
    /\ lab.psalAdj = << >>
    /\ lab.has /\ lab.levels[1].TA = None /\ lab.levels[1].best_temp = Num(10)

\* every level row has its profiles row, every profiles row its
\* float_cycles row, every float_cycles row its floats row
RefIntegrity(s) ==
    /\ \A c \in s.cycles : \E fl \in s.floats : fl.wmo = c.wmo
    /\ \A pr \in s.profiles : \E c \in s.cycles : c.id = pr.cycle_id
    /\ \A r \in s.core : \E pr \in s.profiles : pr.id = r.profile_id
    /\ \A r \in s.bgc : \E pr \in s.profiles : pr.id = r.profile_id

\* the store s, reached by the statements before the n-th of
\* ingest_file(f), is intact, and so is the store after each later one
RECURSIVE IntactFrom(_, _, _, _, _)
IntactFrom(s, f, n, now, by) ==
    /\ RefIntegrity(s)
    /\ \/ n > NStmts(f)
       \/ IntactFrom(ExecStmt(s, f, n, now, by), f, n + 1, now, by)

\* C22: the committed and the pending store are referentially intact, and
\* in an ingest_file call that returns the pending store is intact after
\* every statement, because the floats row is written before the cycle,
\* the cycle before its profiles and each profile before its levels.
C22_ReferentialIntegrity ==
    /\ [](RefIntegrity(db) /\ RefIntegrity(tx))
    /\ [][\A f \in NcFiles :
             (Logs(f) /\ calls'[Len(calls')].ok) =>
                 IntactFrom(tx, f, 1, TxNow, clock + 1)]_vars

\* a call that raised after writing a profile and its core levels was
\* committed by the close of the connection, next to a whole ingestion
C22_Witness ==
    /\ txState = "closed" /\ Len(calls) = 2
    /\ calls[1].ok /\ calls[2].plan = "py"
    /\ \E r \in db.core : r.by = 1
    /\ \E r \in db.profiles : r.by = 2
    /\ \E r \in db.core : r.by = 2
    /\ db.bgc # {}

\* C23: every stored levels_bgc row, committed or pending, has a pressure
\* and at least one of oxygen, adjusted oxygen, chlorophyll and adjusted
\* chlorophyll.
C23_BgcRowsCarrySignal ==
    \A r \in db.bgc \cup tx.bgc :
        /\ r.lv.pres # None
        /\ \/ r.lv.doxy # None
           \/ r.lv.doxy_adjusted # None
           \/ r.lv.chla # None
           \/ r.lv.chla_adjusted # None

\* of the four levels of the first profile of SR1900001_002.nc, the one
\* without pressure and the one without any BGC value were not stored
C23_Witness ==
    /\ Len(calls) >= 1 /\ calls[1].ok /\ calls[1].file = "SR1900001_002.nc"
    /\ \E pr \in db.profiles :
          /\ pr.profile_index = 0 /\ pr.modality = "bgc"
          /\ { r.level_index : r \in { x \in db.bgc : x.profile_id = pr.id } }
                = {0, 3}

\* the date values strptime rejects: empty, text, a date without time, an
\* inner blank, 30 February, second 60, hour 24
Unparseable ==
    { "", "n/a", "20240115", "2024-01-15 12:00:00", "20240230120000",
      "20240115120060", "20240115240000" }

\* C25: with a resolved date column a row whose date is empty or does not
\* parse is dropped; without one no time filter applies and a row is
\* selected exactly when its ocean matches and its file path is not empty,
\* also when the row carries a date outside the window.
C25_DateColumnOptional ==
    (lab.fn = "keep_row" /\ lab.pc = "ret") =>
        /\ (lab.hasDate /\ lab.date \in Unparseable) =>
               ~ lab.kept /\ lab.selected = << >>
        /\ ~ lab.hasDate =>
               /\ lab.kept <=> OceanMatches(lab.ocean, lab.letter)
               /\ lab.selected = <<lab.file>>
                     <=> (OceanMatches(lab.ocean, lab.letter) /\ lab.file # "")
               /\ lab.selected \in { << >>, <<lab.file>> }

\* a row dated a year after the window was selected from an index without
\* a resolved date column
C25_Witness ==
    /\ lab.fn = "keep_row" /\ lab.pc = "ret" /\ ~ lab.hasDate
    /\ lab.date = "20250115120000" /\ lab.ocean = "i" /\ lab.letter = "I"
    /\ lab.selected = <<"a.nc">>

\* a matching row with an empty date was dropped from an index with a date
\* column
C25_EmptyDateDropped ==
    /\ lab.fn = "keep_row" /\ lab.pc = "ret" /\ lab.hasDate
    /\ lab.date = "" /\ lab.ocean = "I" /\ lab.letter = "I" /\ lab.file = "a.nc"
    /\ ~ lab.kept /\ lab.selected = << >>

\* C26: every file at a destination holds the complete payload of one
\* successful fetch, and a call that reports "exists" found such a file: a
\* failed write leaves nothing a later call accepts as fetched.
C26_NoPartialFileAccepted ==
    /\ \A x \in fs : x.complete
    /\ (dl.pc = "done" /\ dl.kind = "file" /\ dl.result.msg = "exists") =>
          \A x \in fs : x.path = OutPath(dl.rel) => x.complete

\* save_bytes raised after open(path, "wb") had created the destination;
\* the next call for the path found the file and reported success
C26_PartialAcceptedReached ==
    /\ dl.pc = "done" /\ dl.kind = "file" /\ dl.ncalls = 2
    /\ dl.result.success /\ dl.result.msg = "exists" /\ dl.log = << >>
    /\ \E x \in fs : x.path = OutPath(dl.rel) /\ ~ x.complete /\ x.content # NoErr

\* the floats row a profiles row belongs to, through its float_cycles row
FloatOf(s, pr) ==
    CHOOSE fl \in s.floats :
        \E c \in s.cycles : c.id = pr.cycle_id /\ c.wmo = fl.wmo

\* every timed profile of a float lies between the float's two times
TimesBracket(s) ==
    /\ \A pr \in s.profiles :
          pr.fields.juld_time # NULL =>
              /\ FloatOf(s, pr).first # NULL /\ FloatOf(s, pr).last # NULL
              /\ FloatOf(s, pr).first <= pr.fields.juld_time
              /\ pr.fields.juld_time <= FloatOf(s, pr).last
    /\ \A fl \in s.floats :
          (fl.first # NULL /\ fl.last # NULL) => fl.first <= fl.last

\* C27: after any sequence of successful ingestions, every stored profile
\* with a time t of a float has first_profile_time <= t <=
\* last_profile_time, and first_profile_time <= last_profile_time.
C27_ProfileTimesBracketed ==
    (\A i \in 1..Len(calls) : calls[i].ok) => TimesBracket(db)

\* R1900001_001.nc (times 5 and 3) and then D1900001_001.nc (time 4) were
\* ingested: the float keeps 3 and 5, its profiles now have 4 and 3
C27_Witness ==
    /\ Len(calls) = 2 /\ calls[1].ok /\ calls[2].ok
    /\ calls[1].file = "R1900001_001.nc" /\ calls[2].file = "D1900001_001.nc"
    /\ \E fl \in db.floats : fl.wmo = 1900001 /\ fl.first = 3 /\ fl.last = 5
    /\ { pr.fields.juld_time : pr \in db.profiles } = {3, 4}

\* C27 without its premise: the same holds of the committed and of the
\* pending store after calls that failed
C27_AlsoAfterFailures == TimesBracket(db) /\ TimesBracket(tx)

\* the keys of the floats, float_cycles and profiles rows of a store
FloatKeys(s) == { r.wmo : r \in s.floats }

CycleKeys(s) == { <<r.id, r.wmo, r.cycle_number>> : r \in s.cycles }

ProfileKeys(s) ==
    { <<r.id, r.cycle_id, r.modality, r.profile_index>> : r \in s.profiles }

KeysGrow(s, t) ==
    /\ FloatKeys(s) \subseteq FloatKeys(t)
    /\ CycleKeys(s) \subseteq CycleKeys(t)
    /\ ProfileKeys(s) \subseteq ProfileKeys(t)

\* the ids of the profiles rows the profiles of file f are stored in
WrittenIds(s, f) ==
    { pr.id : pr \in
        { r \in s.profiles :
            /\ \E c \in s.cycles : /\ c.id = r.cycle_id /\ c.wmo = f.wmo
                                   /\ c.cycle_number = CycleNumber(f)
            /\ r.modality = Modality(f)
            /\ r.profile_index < Len(f.profs) } }

LevelsOf(s, id) ==
    <<{ r \in s.core : r.profile_id = id }, { r \in s.bgc : r.profile_id = id }>>

\* C28: no floats, float_cycles or profiles row is ever deleted: the key
\* sets of the committed store only grow, and so do those of the pending
\* store in every ingest_file call the database does not abort; a profiles
\* row the file has no profile for is left as it is, with its levels.
C28_RowsNeverDeleted ==
    [][/\ KeysGrow(db, db')
       /\ \A f \in NcFiles :
            (Logs(f) /\ ParseRel(f).ok /\ calls'[Len(calls')].plan # "db") =>
                /\ KeysGrow(tx, tx')
                /\ \A pr \in tx.profiles :
                      pr.id \notin WrittenIds(tx', f) =>
                          /\ pr \in tx'.profiles
                          /\ LevelsOf(tx', pr.id) = LevelsOf(tx, pr.id)]_vars

\* R1900001_001.nc stored two profiles; D1900001_001.nc, which has one, was
\* ingested into the same cycle: the row of index 1 and its core level are
\* still those of the first call
C28_Witness ==
    /\ Len(calls) = 2 /\ calls[1].ok /\ calls[2].ok
    /\ calls[1].file = "R1900001_001.nc" /\ calls[2].file = "D1900001_001.nc"
    /\ \E pr \in db.profiles :
          /\ pr.profile_index = 1 /\ pr.by = 1
          /\ pr.fields.source_file = "R1900001_001.nc"
          /\ \E r \in db.core : r.profile_id = pr.id /\ r.by = 1
    /\ \E pr \in db.profiles : pr.profile_index = 0 /\ pr.by = 2

\* a cycle token without the letter it may end in
Digits(tok) ==
    IF tok # << >>
       /\ tok[Len(tok)] \notin {"0", "1", "2", "3", "4", "5", "6", "7", "8", "9"}
    THEN SubSeq(tok, 1, Len(tok) - 1) ELSE tok

\* two files of one float whose names differ only in the letter prefix or
\* in the letter the cycle token ends in, of one modality
SameCycleFiles(f, g) ==
    /\ f.name # g.name /\ f.nseg = g.nseg /\ f.dac = g.dac
    /\ f.wmoLen >= 6 /\ f.wmo = g.wmo
    /\ Digits(f.ctok) = Digits(g.ctok)
    /\ (\E i \in 1..Len(f.prefix) : f.prefix[i] \in {"S", "s"})
          = (\E i \in 1..Len(g.prefix) : g.prefix[i] \in {"S", "s"})

\* the profiles rows of profile pidx of file f in store s, found by the
\* platform number, the digits of the cycle token, the modality and the
\* index
RowsFor(s, f, pidx) ==
    { r \in s.profiles :
        /\ \E c \in s.cycles : /\ c.id = r.cycle_id /\ c.wmo = f.wmo
                               /\ c.cycle_number = NumOf(Digits(f.ctok))
        /\ r.modality = (IF \E i \in 1..Len(f.prefix) : f.prefix[i] \in {"S", "s"}
                         THEN "bgc" ELSE "core")
        /\ r.profile_index = pidx - 1 }

\* C29: when two such files were ingested one after the other, each
\* profile index of the second has one profiles row, shared with the
\* first, that holds the fields and the core levels of the second.
C29_SameCycleFilesShareRows ==
    \A n \in 2..Len(calls) :
        (calls[n - 1].ok /\ calls[n].ok /\ Len(calls) = n
            /\ txState \in {"idle", "closed"}
            /\ SameCycleFiles(FileOf(calls[n - 1].file), FileOf(calls[n].file))) =>
            LET f == FileOf(calls[n - 1].file)
                g == FileOf(calls[n].file)
            IN  /\ Cardinality({ c \in db.cycles :
                        c.wmo = g.wmo /\ c.cycle_number = NumOf(Digits(g.ctok)) }) = 1
                /\ \A pidx \in 1..Len(g.profs) :
                      /\ Cardinality(RowsFor(db, g, pidx)) = 1
                      /\ RowsFor(db, g, pidx) = RowsFor(db, f, pidx)
                      /\ \A r \in RowsFor(db, g, pidx) :
                            /\ r.fields = ProfileFields(g, pidx)
                            /\ { <<x.level_index, x.val>> :
                                   x \in { y \in db.core : y.profile_id = r.id } }
                               = { <<i - 1, g.profs[pidx].core[i]>> :
                                   i \in 1..Len(g.profs[pidx].core) }

\* R1900001_001.nc and then R1900001_001D.nc were ingested: profile 0 of
\* cycle 1 is the descending profile, under the id the first call gave it
C29_Witness ==
    /\ Len(calls) = 2 /\ calls[1].ok /\ calls[2].ok
    /\ calls[1].file = "R1900001_001.nc" /\ calls[2].file = "R1900001_001D.nc"
    /\ Cardinality(db.cycles) = 1
    /\ \E r \in db.profiles :
          /\ r.profile_index = 0 /\ r.id = 1
          /\ r.fields.source_file = "R1900001_001D.nc"
          /\ { x.val : x \in { y \in db.core : y.profile_id = r.id } } = {14, 15}

\* the same with the files in the other order
C29_OtherOrderReached ==
    /\ Len(calls) = 2 /\ calls[1].ok /\ calls[2].ok
    /\ calls[1].file = "R1900001_001D.nc" /\ calls[2].file = "R1900001_001.nc"
    /\ Cardinality(db.cycles) = 1 /\ Cardinality(db.profiles) = 2
    /\ \A r \in db.profiles : r.fields.source_file = "R1900001_001.nc"

\* C30: a fetch sends at most len(servers) * max_tries requests and waits
\* min(2^k, 8) seconds after the failed try k (counted from 0) of a mirror;
\* every fetch that has started ends, and the download stage reaches the
\* final tally.
C30_FetchAndStageTerminate ==
    /\ [](/\ Len(dl.log) <= dl.n * dl.mt
          /\ dl.kind = "file" => Len(dl.log) <= NMirrors * RetriesEach
          /\ \A i \in 1..Len(dl.log) :
                ~ dl.log[i].ok =>
                    /\ dl.log[i].wait =
                          (IF Pow(2, dl.log[i].try - 1) < 8
                           THEN Pow(2, dl.log[i].try - 1) ELSE 8)
                    /\ dl.log[i].wait <= 8)
    /\ (dl.pc \in {"try", "save"}) ~> (dl.pc = "done")
    /\ (mn.pc = "download") ~> (mn.pc = "done")

\* a fetch over all the mirrors ended after every one of its
\* len(MIRRORS) * retries_each requests had failed, with waits of 1 and 2
\* seconds at each mirror
C30_Witness ==
    /\ dl.pc = "done" /\ dl.kind = "file" /\ dl.n = NMirrors
    /\ ~ dl.result.success
    /\ Len(dl.log) = NMirrors * RetriesEach
    /\ \A i \in 1..Len(dl.log) :
          ~ dl.log[i].ok /\ dl.log[i].wait = dl.log[i].try

\* the final tally of a stage of two tasks, one failed and one served
C30_TallyReached ==
    /\ mn.pc = "done" /\ Len(futs) = 2 /\ mn.ok = 1 /\ mn.fail = 1
    /\ \A i \in 1..Len(futs) : futs[i].st = "collected"

====
